---- MODULE Spec2Model ----
(***************************************************************************)
(* Model of the heartsongs bot service.                                    *)
(*                                                                         *)
(* The bot worker (lambda/bot-worker/handler.js, latest revision) is a     *)
(* poll loop run by one Lambda invocation at a time.  Each poll fetches    *)
(* the game snapshot, dispatches a phase handler and then sleeps, hands    *)
(* off to a fresh invocation, or stops.  The phase handlers send nothing   *)
(* themselves: they schedule setTimeout callbacks that send the game       *)
(* action later.  The game backend is an external authority; it is         *)
(* modelled here by the environment actions and by the Server* operators.  *)
(*                                                                         *)
(* Time.  All clocks are durations counted in ticks; TicksPerMinute ticks  *)
(* make one minute.  The 2 s / 5 s sleeps of the loop and the 2-12 s       *)
(* delays of the callbacks are below that resolution: a poll iteration     *)
(* takes 0 ticks unless its snapshot request hangs (axios.get is called    *)
(* without a timeout), and a pending callback may run before or after      *)
(* any later poll (the shortest delay, 2 s, is the length of the sleep).   *)
(***************************************************************************)
EXTENDS Integers, Sequences, FiniteSets, Bags, TLC

(***************************************************************************)
(* Bounds of the model.                                                    *)
(***************************************************************************)
TicksPerMinute == 2
MaxTimers == 2
\* a fresh session is followed through this many hanging requests
MaxHangs == 1
MaxPhaseLag == 1
\* the longest submission list given to the winner determination on its own
MaxSubs == 2
\* the longest list of search results given to the matcher
MaxResults == 2
\* the largest maxRetries given to the retry wrapper
MaxRetries == 2
\* the spawn-bot process is followed over this many ticks
MaxClock == 4
\* the most spawn requests that arrive within one tick
MaxBurst == 5

(***************************************************************************)
(* Program constants, in ticks.                                            *)
(***************************************************************************)
maxRunTime == 840000            \* 14 * 60 * 1000 ms
MAX_STATE_DURATION == 900000    \* 15 * 60 * 1000 ms
MAX_AGE == 86400000             \* 24 * 60 * 60 * 1000 ms
HostTimeout == 900              \* seconds (serverless.yaml)
RATE_LIMIT_WINDOW == 60000      \* ms
MAX_SPAWNS_PER_MINUTE == 10
SpawnTimeout == 30              \* seconds (serverless.yaml)

Ms(t) == (t * TicksPerMinute) \div 60000
RunMargin == Ms(maxRunTime)
StallCeiling == Ms(MAX_STATE_DURATION)
AgeCeiling == Ms(MAX_AGE)
HostLimit == (HostTimeout * TicksPerMinute) \div 60

\* A snapshot request that hangs until just after the handoff margin.
LongFetch == RunMargin + 1
Latencies == {0, LongFetch}

\* Saturation points of the observer clocks.
AgeCap == AgeCeiling + 1
DwellCap == StallCeiling + 2 * LongFetch + 1

Bot == "bot"
Others == {"p1"}
Players == {Bot} \cup Others
Songs == {"s1", "s2"}
NoSong == "none"
NoPlayer == "nobody"
Null == "null"
\* the roster sizes a snapshot can show, <<activePlayers.length, players.length>>;
\* 0: activePlayers absent or empty
Rosters == {<<0, 3>>, <<2, 2>>, <<3, 3>>}
Phases == {"waiting", "selecting", "voting", "results", "question-selection", "ended"}

VARIABLES
  \* the game, as held by the backend
  phase,            \* status
  botIn,            \* players contains the bot
  botReady,         \* the bot's isReady
  submissions,      \* list of [player, song, hasPassed, votes], oldest first
  nextQuestionSet,  \* winnerSelectedQuestion.text is set
  \* the running invocation
  pc,               \* "running" or why the invocation stopped
  queued,           \* a continuation event is waiting to start
  elapsed,          \* Date.now() - startTime
  stateElapsed,     \* Date.now() - this.stateStartTime
  currentState,     \* this.currentState
  isSelectingQuestion, \* this._isSelectingQuestion
  timers,           \* bag of pending setTimeout callbacks
  \* observers
  age,              \* time since the session was spawned
  obsPhase,         \* last phase any invocation of the session fetched
  obsDwell,         \* time since obsPhase was first fetched
  sends,            \* who has sent this phase's game action since the phase began
  ev,               \* what the last step did, if it ran a handler or a callback
  \* a library function on its own
  call,             \* the call under examination: its arguments and what it did
  \* the spawn-bot process
  spawnAttempts,    \* requests let through since the counter was last reset
  lastSpawnTime,    \* Date.now() of the last request let through (0: none yet)
  clock,            \* Date.now() of the spawn-bot process
  recent,           \* requests of the last 60 s by age: how many came, how many were let through
  burst,            \* some 60-second interval has held more than MAX_SPAWNS_PER_MINUTE requests
  resp              \* the last spawn request: its response and what it did on the way

gameVars == <<phase, botIn, botReady, submissions, nextQuestionSet>>
workerVars == <<pc, queued, elapsed, stateElapsed, currentState, isSelectingQuestion, timers>>
obsVars == <<age, obsPhase, obsDwell, sends, ev>>
spawnVars == <<spawnAttempts, lastSpawnTime, clock, recent, burst, resp>>
vars == <<gameVars, workerVars, obsVars, call, spawnVars>>

Min(a, b) == IF a < b THEN a ELSE b

(***************************************************************************)
(* JavaScript values for the one place where undefined matters.            *)
(***************************************************************************)
JsNumber(n) == [type |-> "number", val |-> n]
JsUndefined == [type |-> "undefined", val |-> 0]
JsNaN == [type |-> "NaN", val |-> 0]
JsMinus(a, b) ==
  IF a.type = "number" /\ b.type = "number" THEN JsNumber(a.val - b.val) ELSE JsNaN
JsGreater(a, b) ==
  IF a.type = "number" /\ b.type = "number" THEN a.val > b.val ELSE FALSE

\* `this` inside the arrow function exports.handler is module.exports,
\* which has no spawnTime and no MAX_AGE.
HandlerThis == [spawnTime |-> JsUndefined, MAX_AGE |-> JsUndefined]

\* if (Date.now() - this.spawnTime > this.MAX_AGE) break;   (top of the loop)
AgeCheck(now) == JsGreater(JsMinus(JsNumber(now), HandlerThis.spawnTime), HandlerThis.MAX_AGE)

(***************************************************************************)
(* Snapshot helpers.                                                       *)
(***************************************************************************)
Idx(subs) == 1..Len(subs)
NotPassed(s) == ~s.hasPassed
IsOpponent(s) == s.player # Bot

\* handleSelection: submissions.some(s => s.player._id === this.botId)
hasSubmitted(subs) == \E i \in Idx(subs) : subs[i].player = Bot

\* handleVoting: submissions.some(s => s.votes.some(v => v._id === this.botId))
hasVoted(subs) == \E i \in Idx(subs) : Bot \in subs[i].votes

\* handleVoting: activePlayers?.length || players.length
totalPlayers(na, np) == IF na # 0 THEN na ELSE np

\* handleVoting: totalPlayers < 3
canVoteForSelf(na, np) == totalPlayers(na, np) < 3

\* (variant without the self-vote filter)
votableSubmissions_unfiltered(subs, na, np) == SelectSeq(subs, NotPassed)
\* handleVoting: the non-passed submissions, minus the bot's own unless self-voting is allowed
votableSubmissions(subs, na, np) ==
  LET allSubmissions == SelectSeq(subs, NotPassed)
  IN  IF canVoteForSelf(na, np) THEN allSubmissions
      ELSE SelectSeq(allSubmissions, IsOpponent)

\* a submission is identified by its author
Authors(subs) == [i \in Idx(subs) |-> subs[i].player]
IsBotId(p) == p = Bot
IsOtherId(p) == p # Bot

\* makeSmartVotingChoice: the submissions it can return
SmartVotingChoices(votable, canSelf) ==
  LET own == SelectSeq(votable, IsBotId)
      opp == SelectSeq(votable, IsOtherId)
  IN  IF canSelf /\ Len(own) > 0 /\ Len(opp) > 0
      THEN {own[1], opp[1]}                       \* shouldVoteForOwnSubmission
      ELSE {votable[i] : i \in Idx(votable)}      \* chooseVoteByPersonality

\* isBotTheWinner: most votes first, earlier submission first among equals
VoteCount(s) == Cardinality(s.votes)
isBotTheWinner(subs) ==
  LET actual == SelectSeq(subs, NotPassed)
  IN  /\ Len(actual) > 0
      /\ \E i \in Idx(actual) :
           /\ actual[i].player = Bot
           /\ \A j \in Idx(actual) :
                \/ VoteCount(actual[j]) < VoteCount(actual[i])
                \/ VoteCount(actual[j]) = VoteCount(actual[i]) /\ i <= j

(***************************************************************************)
(* The backend's answers to the bot's requests.                            *)
(***************************************************************************)
ClaimedByOther(s) ==
  \E i \in Idx(submissions) :
    /\ submissions[i].player # Bot
    /\ ~submissions[i].hasPassed
    /\ submissions[i].song = s

BotHasEntry == \E i \in Idx(submissions) : submissions[i].player = Bot
BotHasCastVote == \E i \in Idx(submissions) : Bot \in submissions[i].votes

\* POST /game/submit {songId}: 409 DUPLICATE_SONG for a claimed song
ServerSubmit(s) ==
  {"err"} \cup
  (IF ClaimedByOther(s) THEN {"dup"}
   ELSE IF phase = "selecting" /\ botIn /\ ~BotHasEntry THEN {"ok"} ELSE {})

\* POST /game/submit {hasPassed: true}
ServerPass ==
  {"err"} \cup (IF phase = "selecting" /\ botIn /\ ~BotHasEntry THEN {"ok"} ELSE {})

\* POST /game/vote {submissionId}
ServerVote(p) ==
  {"err"} \cup
  (IF /\ phase = "voting" /\ botIn /\ ~BotHasCastVote
      /\ \E i \in Idx(submissions) : submissions[i].player = p /\ ~submissions[i].hasPassed
   THEN {"ok"} ELSE {})

\* POST /game/ready
ServerReady == {"err"} \cup (IF phase = "waiting" /\ botIn THEN {"ok"} ELSE {})

\* POST /game/set-winner-question
ServerQuestion == {"err"} \cup (IF phase = "question-selection" /\ botIn THEN {"ok"} ELSE {})

Entry(p, s, passed) == [player |-> p, song |-> s, hasPassed |-> passed, votes |-> {}]

AddVote(subs, voter, p) ==
  [i \in Idx(subs) |->
     IF subs[i].player = p THEN [subs[i] EXCEPT !.votes = @ \cup {voter}] ELSE subs[i]]

(***************************************************************************)
(* Pending callbacks.                                                      *)
(***************************************************************************)
Timer(k, g, s, v, c, t) ==
  [kind |-> k, gen |-> g, song |-> s, votable |-> v, canSelf |-> c, total |-> t, lag |-> 0]
NoTimer == Timer("none", "cur", NoSong, <<>>, FALSE, 0)
ReadyTimer == Timer("ready", "cur", NoSong, <<>>, FALSE, 0)
SubmitTimer(s) == Timer("submit", "cur", s, <<>>, FALSE, 0)
PassTimer == Timer("pass", "cur", NoSong, <<>>, FALSE, 0)
VoteTimer(v, c, t) == Timer("vote", "cur", NoSong, v, c, t)
QuestionTimer == Timer("question", "cur", NoSong, <<>>, FALSE, 0)

NoTimers == EmptyBag
Pending == BagToSet(timers)
Schedule(t) == timers (+) SetToBag({t})
Cancel(t) == timers (-) SetToBag({t})

CurTimers(b) == {t \in BagToSet(b) : t.gen = "cur"}
CurCount(b) == BagCardinality([t \in CurTimers(b) |-> CopiesIn(t, b)])

\* The handler has returned: what it left pending belongs to a frozen process.
\* keep: the callback that still runs if the host thaws that process (one of
\* them is followed), NoTimer if none does.
Retire(b, keep) ==
  IF keep = NoTimer \/ ~BagIn(keep, b) THEN EmptyBag
  ELSE SetToBag({[keep EXCEPT !.gen = "old"]})

(***************************************************************************)
(* Observers.                                                              *)
(***************************************************************************)
\* sends: "cur" the running invocation, "old" a callback left pending by an
\* invocation that has returned
Gens == {"cur", "old"}
NoSends == {}
OwnAction(k) == \/ k = "submit" /\ phase = "selecting"
                \/ k = "vote" /\ phase = "voting"
                \/ k = "question" /\ phase = "question-selection"
Sent(k, g) == IF OwnAction(k) THEN sends \cup {g} ELSE sends
RetireSends(sn) == sn \ {"cur"}

\* repeat: the same invocation had already sent this phase's action in this phase;
\* other: another invocation of the session had
NoEv == [op |-> "none", handler |-> "none", hadOwn |-> FALSE, scheduled |-> "none",
         sent |-> "none", song |-> NoSong, claimed |-> FALSE, target |-> NoPlayer, total |-> 0,
         repeat |-> FALSE, other |-> FALSE, invoke |-> "none", payload |-> Null]

Tick(c, d, cap) == Min(c + d, cap)
\* (an aged session is followed through hanging requests while its game sits in the lobby)
Tracked(d) == d = 0 \/ age + d <= MaxHangs * LongFetch \/ (age = AgeCap /\ phase = "waiting")
\* a callback is due within 12 s: the callbacks of the running invocation have
\* run by the time a hanging request returns
Quiet(d) == d = 0 \/ CurCount(timers) = 0

\* no library call is under examination
NoCall == [fn |-> "none", done |-> FALSE]

(***************************************************************************)
(* The spawn-bot process before its first request.                         *)
(***************************************************************************)
Window == Ms(RATE_LIMIT_WINDOW)
\* Date.now() is far beyond one window when the process starts
ClockStart == Window + 1
ClockEnd == ClockStart + MaxClock
NoRequests == [a \in 0..Window |-> [sent |-> 0, passed |-> 0]]
NoPayload == [k \in {} |-> ""]
NoResp ==
  [statusCode |-> 0, error |-> "", success |-> FALSE, botId |-> "undefined",
   botName |-> "undefined", steps |-> <<>>, failed |-> "none", registered |-> FALSE,
   joined |-> FALSE, workers |-> 0, payload |-> NoPayload]
SpawnIdle ==
  /\ spawnAttempts = 0
  /\ lastSpawnTime = 0
  /\ clock = ClockStart
  /\ recent = NoRequests
  /\ burst = FALSE
  /\ resp = NoResp

(***************************************************************************)
(* The invocation's input and the payload of its continuation.             *)
(***************************************************************************)
\* the BotSession payload this invocation was started with: the object the
\* host parsed from the JSON text of the request that started it
EventKeys == {"botId", "botName", "gameCode", "gameId", "sessionToken",
              "personality", "personalityConfig"}
event == [k \in EventKeys |-> IF k = "botId" THEN Bot ELSE k]
\* JSON.stringify: the members whose value is not undefined
JsonStringify(obj) == {<<k, obj[k]>> : k \in {x \in DOMAIN obj : obj[x] # "undefined"}}
\* what the host hands to the handler it starts
JsonParse(text) == [k \in {m[1] : m \in text} |-> (CHOOSE m \in text : m[1] = k)[2]]

(***************************************************************************)
(* Initial state: the spawn handler has registered the bot, joined it to   *)
(* the game and invoked the worker; `new BotWorker(event)` has run.        *)
(***************************************************************************)
Init ==
  /\ phase = "waiting"
  /\ botIn = TRUE
  /\ botReady = FALSE
  /\ submissions = <<>>
  /\ nextQuestionSet = FALSE
  /\ pc = "running"
  /\ queued = FALSE
  /\ elapsed = 0
  /\ stateElapsed = 0
  /\ currentState = Null
  /\ isSelectingQuestion = FALSE
  /\ timers = NoTimers
  /\ age = 0
  /\ obsPhase = Null
  /\ obsDwell = 0
  /\ sends = NoSends
  /\ ev = NoEv
  /\ call = NoCall
  /\ SpawnIdle

(***************************************************************************)
(* getGameState: a changed status restarts the state clock.                *)
(***************************************************************************)
StateChanged(cur, status) == cur # status
NextStateElapsed(cur, status, se, d) ==
  IF StateChanged(cur, status) THEN 0 ELSE Tick(se, d, StallCeiling + 1)

\* checkStateTimeout
checkStateTimeout(timeInCurrentState) == timeInCurrentState > StallCeiling

(***************************************************************************)
(* The phase handlers: the callbacks a poll schedules.                     *)
(***************************************************************************)
handleLobby == IF botIn /\ ~botReady THEN {ReadyTimer} ELSE {}

\* (variant without the hasSubmitted return)
handleSelection_unguarded(q, choice) == IF ~q THEN {PassTimer} ELSE {SubmitTimer(choice)}
\* q: the snapshot has a currentQuestion; choice: what chooseSongForQuestion returned
handleSelection(q, choice) ==
  IF hasSubmitted(submissions) THEN {}
  ELSE IF ~q THEN {PassTimer}
  ELSE {SubmitTimer(choice)}

\* (variant without the returns on an empty list)
handleVoting_anyList(na, np) ==
  LET votable == votableSubmissions(submissions, na, np)
  IN  IF hasVoted(submissions) THEN {}
      ELSE {VoteTimer(Authors(votable), canVoteForSelf(na, np), totalPlayers(na, np))}
handleVoting(na, np) ==
  LET votable == votableSubmissions(submissions, na, np)
  IN  IF hasVoted(submissions) THEN {}
      ELSE IF Len(SelectSeq(submissions, NotPassed)) = 0 THEN {}
      ELSE IF Len(votable) = 0 THEN {}
      ELSE {VoteTimer(Authors(votable), canVoteForSelf(na, np), totalPlayers(na, np))}

handleResults == {}

\* (variant without the single-flight flag)
handleQuestionSelection_unflagged ==
  IF ~isBotTheWinner(submissions) THEN {}
  ELSE IF nextQuestionSet THEN {}
  ELSE {QuestionTimer}
\* (variant without the winner test)
handleQuestionSelection_anyone ==
  IF nextQuestionSet THEN {}
  ELSE IF isSelectingQuestion THEN {}
  ELSE {QuestionTimer}
handleQuestionSelection ==
  IF ~isBotTheWinner(submissions) THEN {}
  ELSE IF nextQuestionSet THEN {}
  ELSE IF isSelectingQuestion THEN {}
  ELSE {QuestionTimer}

\* (variant that does not look for the bot in the roster)
processGameState_noRoster(timeInCurrentState, q, choice, na, np) ==
  IF checkStateTimeout(timeInCurrentState)
  THEN [continue |-> FALSE, why |-> "stalled", handler |-> "none", sched |-> {}]
  ELSE CASE phase = "waiting" ->
              [continue |-> TRUE, why |-> "running", handler |-> "waiting", sched |-> handleLobby]
         [] phase = "selecting" ->
              [continue |-> TRUE, why |-> "running", handler |-> "selecting",
               sched |-> handleSelection(q, choice)]
         [] phase = "voting" ->
              [continue |-> TRUE, why |-> "running", handler |-> "voting", sched |-> handleVoting(na, np)]
         [] phase = "results" ->
              [continue |-> TRUE, why |-> "running", handler |-> "results", sched |-> handleResults]
         [] phase = "question-selection" ->
              [continue |-> TRUE, why |-> "running", handler |-> "question-selection",
               sched |-> handleQuestionSelection]
         [] phase = "ended" ->
              [continue |-> FALSE, why |-> "ended", handler |-> "none", sched |-> {}]
\* processGameState: FALSE ends the loop
processGameState(timeInCurrentState, q, choice, na, np) ==
  IF checkStateTimeout(timeInCurrentState)
  THEN [continue |-> FALSE, why |-> "stalled", handler |-> "none", sched |-> {}]
  ELSE IF ~botIn
  THEN [continue |-> FALSE, why |-> "removed", handler |-> "none", sched |-> {}]
  ELSE CASE phase = "waiting" ->
              [continue |-> TRUE, why |-> "running", handler |-> "waiting", sched |-> handleLobby]
         [] phase = "selecting" ->
              [continue |-> TRUE, why |-> "running", handler |-> "selecting",
               sched |-> handleSelection(q, choice)]
         [] phase = "voting" ->
              [continue |-> TRUE, why |-> "running", handler |-> "voting", sched |-> handleVoting(na, np)]
         [] phase = "results" ->
              [continue |-> TRUE, why |-> "running", handler |-> "results", sched |-> handleResults]
         [] phase = "question-selection" ->
              [continue |-> TRUE, why |-> "running", handler |-> "question-selection",
               sched |-> handleQuestionSelection]
         [] phase = "ended" ->
              [continue |-> FALSE, why |-> "ended", handler |-> "none", sched |-> {}]

\* the loop's handoff test
ShouldHandOff(elapsedTime) == elapsedTime > RunMargin

PollEv(r, d, na, np) ==
  [NoEv EXCEPT !.op = "poll", !.handler = r.handler, !.hadOwn = BotHasEntry,
               !.scheduled = IF r.sched = {} THEN "none" ELSE (CHOOSE t \in r.sched : TRUE).kind,
               !.total = IF phase = "voting" THEN totalPlayers(na, np) ELSE 0]

(***************************************************************************)
(* One iteration of the loop in exports.handler whose snapshot request     *)
(* succeeds.  d: how long the request took; invokeOk: lambda.invoke        *)
(* succeeded.                                                              *)
(***************************************************************************)
\* the callbacks pending once the handler of this poll has run
AfterPoll(d, q, choice, roster) ==
  LET se2 == NextStateElapsed(currentState, phase, stateElapsed, d)
      r   == processGameState(se2, q, choice, roster[1], roster[2])
  IN  IF r.sched = {} THEN timers ELSE Schedule(CHOOSE t \in r.sched : TRUE)

PollOk(d, q, choice, invokeOk, roster, keep) ==
  /\ UNCHANGED <<call, spawnVars>>
  /\ pc = "running"
  /\ elapsed + d < HostLimit
  /\ Tracked(d)
  /\ Quiet(d)
  /\ LET now == Tick(age, d, AgeCap)
         se2 == NextStateElapsed(currentState, phase, stateElapsed, d)
         r   == processGameState(se2, q, choice, roster[1], roster[2])
         hand == r.continue /\ ShouldHandOff(elapsed + d)
         after == AfterPoll(d, q, choice, roster)
     IN  /\ BagCardinality(after) <= MaxTimers
         /\ keep = NoTimer \/ BagIn(keep, after)
         /\ age' = now
         /\ obsPhase' = phase
         /\ obsDwell' = IF obsPhase = phase THEN Tick(obsDwell, d, DwellCap) ELSE 0
         /\ elapsed' = elapsed + d
         /\ IF AgeCheck(age)
            THEN /\ pc' = "aged"
                 /\ timers' = Retire(timers, NoTimer)
                 /\ sends' = RetireSends(sends)
                 /\ ev' = [NoEv EXCEPT !.op = "poll"]
                 /\ UNCHANGED <<queued, stateElapsed, currentState, isSelectingQuestion>>
            ELSE /\ currentState' = phase
                 /\ stateElapsed' = se2
                 /\ ev' = [PollEv(r, d, roster[1], roster[2]) EXCEPT
                            !.invoke = IF ~hand THEN "none" ELSE IF invokeOk THEN "ok" ELSE "failed",
                            !.payload = IF hand THEN JsonParse(JsonStringify(event)) ELSE Null]
                 /\ isSelectingQuestion' = (isSelectingQuestion \/ QuestionTimer \in r.sched)
                 /\ IF ~r.continue
                    THEN /\ pc' = r.why
                         /\ timers' = Retire(after, keep)
                         /\ sends' = RetireSends(sends)
                         /\ UNCHANGED queued
                    ELSE IF hand /\ invokeOk
                    THEN /\ pc' = "handedoff"
                         /\ queued' = TRUE
                         /\ timers' = Retire(after, keep)
                         /\ sends' = RetireSends(sends)
                    ELSE /\ pc' = "running"
                         /\ timers' = after
                         /\ UNCHANGED <<queued, sends>>
  /\ UNCHANGED gameVars

(***************************************************************************)
(* An iteration whose snapshot request is answered with an empty body:     *)
(* response.data is "", getGameState stores it, processGameState returns   *)
(* undefined at `if (!this.gameState) return;` and the loop breaks on       *)
(* `!shouldContinue`.                                                      *)
(***************************************************************************)
Undefined == "undefined"
PollEmpty(d, keep) ==
  /\ UNCHANGED <<call, spawnVars>>
  /\ pc = "running"
  /\ elapsed + d < HostLimit
  /\ Tracked(d)
  /\ Quiet(d)
  /\ keep = NoTimer \/ BagIn(keep, timers)
  /\ age' = Tick(age, d, AgeCap)
  /\ obsDwell' = Tick(obsDwell, d, DwellCap)
  /\ elapsed' = elapsed + d
  /\ ev' = [NoEv EXCEPT !.op = "poll"]
  /\ timers' = Retire(timers, IF AgeCheck(age) THEN NoTimer ELSE keep)
  /\ sends' = RetireSends(sends)
  /\ IF AgeCheck(age)
     THEN /\ pc' = "aged"
          /\ UNCHANGED <<stateElapsed, currentState>>
     ELSE /\ pc' = "nosnapshot"
          /\ currentState' = Undefined       \* newGameState.status of ""
          /\ stateElapsed' = NextStateElapsed(currentState, Undefined, stateElapsed, d)
  /\ UNCHANGED <<gameVars, queued, isSelectingQuestion, obsPhase>>

(***************************************************************************)
(* An iteration whose snapshot request throws: catch, sleep 5 s, loop.     *)
(***************************************************************************)
\* (variant that goes on to the phase handler with the snapshot it has)
PollFail_dispatching(d) ==
  /\ UNCHANGED <<call, spawnVars>>
  /\ pc = "running"
  /\ elapsed + d < HostLimit
  /\ Tracked(d)
  /\ Quiet(d)
  /\ age' = Tick(age, d, AgeCap)
  /\ obsDwell' = Tick(obsDwell, d, DwellCap)
  /\ elapsed' = elapsed + d
  /\ stateElapsed' = Tick(stateElapsed, d, StallCeiling + 1)
  /\ IF AgeCheck(age)
     THEN /\ pc' = "aged"
          /\ timers' = Retire(timers, NoTimer)
          /\ sends' = RetireSends(sends)
          /\ ev' = NoEv
     ELSE /\ LET after == IF currentState = Null THEN timers
                          ELSE AfterPoll(d, TRUE, NoSong, <<2, 2>>)
             IN  BagCardinality(after) <= MaxTimers /\ timers' = after
          /\ ev' = [NoEv EXCEPT !.op = "fetchfail"]
          /\ UNCHANGED <<pc, sends>>
  /\ UNCHANGED <<gameVars, queued, currentState, isSelectingQuestion, obsPhase>>
\* ev.op = "fetchfail": the iteration went through the loop's catch
PollFail(d) ==
  /\ UNCHANGED <<call, spawnVars>>
  /\ pc = "running"
  /\ elapsed + d < HostLimit
  /\ Tracked(d)
  /\ Quiet(d)
  /\ age' = Tick(age, d, AgeCap)
  /\ obsDwell' = Tick(obsDwell, d, DwellCap)
  /\ elapsed' = elapsed + d
  /\ stateElapsed' = Tick(stateElapsed, d, StallCeiling + 1)
  /\ IF AgeCheck(age)
     THEN /\ pc' = "aged"
          /\ timers' = Retire(timers, NoTimer)
          /\ sends' = RetireSends(sends)
          /\ ev' = NoEv
     ELSE /\ ev' = [NoEv EXCEPT !.op = "fetchfail"]
          /\ UNCHANGED <<pc, timers, sends>>
  /\ UNCHANGED <<gameVars, queued, currentState, isSelectingQuestion, obsPhase>>

(***************************************************************************)
(* The host ends an invocation that reaches the function timeout; the      *)
(* process is discarded with whatever it had pending.                      *)
(***************************************************************************)
HostKill(d) ==
  /\ UNCHANGED <<call, spawnVars>>
  /\ pc = "running"
  /\ elapsed + d >= HostLimit
  /\ Quiet(d)
  /\ pc' = "killed"
  /\ elapsed' = HostLimit
  /\ age' = Tick(age, d, AgeCap)
  /\ obsDwell' = Tick(obsDwell, d, DwellCap)
  /\ stateElapsed' = Tick(stateElapsed, d, StallCeiling + 1)
  /\ timers' = [t \in {x \in Pending : x.gen = "old"} |-> CopiesIn(t, timers)]
  /\ sends' = RetireSends(sends)
  /\ ev' = NoEv
  /\ UNCHANGED <<gameVars, queued, currentState, isSelectingQuestion, obsPhase>>

(***************************************************************************)
(* The continuation event starts a fresh invocation: new BotWorker(event). *)
(***************************************************************************)
StartContinuation ==
  /\ UNCHANGED <<call, spawnVars>>
  /\ queued
  /\ pc = "handedoff"
  /\ queued' = FALSE
  /\ pc' = "running"
  /\ elapsed' = 0
  /\ stateElapsed' = 0
  /\ currentState' = Null
  /\ isSelectingQuestion' = FALSE
  /\ ev' = NoEv
  /\ UNCHANGED <<gameVars, timers, age, obsPhase, obsDwell, sends>>

(***************************************************************************)
(* The delayed callbacks.  A callback of the running invocation works on   *)
(* its BotWorker; one left behind by an invocation that has returned       *)
(* (gen = "old") runs if the host thaws that process for a later event.    *)
(***************************************************************************)
FireEv(t, k, what, s, target) ==
  [NoEv EXCEPT !.op = "fire", !.sent = what, !.song = s, !.claimed = ClaimedByOther(s),
               !.target = target, !.total = t.total, !.scheduled = t.gen,
               !.repeat = (OwnAction(k) /\ t.gen \in sends),
               !.other = (OwnAction(k) /\ sends \ {t.gen} # {})]

\* handleLobby's callback: POST /game/ready
FireReady(t, r) ==
  /\ UNCHANGED <<call, spawnVars>>
  /\ t \in Pending /\ t.kind = "ready"
  /\ r \in ServerReady
  /\ botReady' = (botReady \/ r = "ok")
  /\ timers' = Cancel(t)
  /\ ev' = FireEv(t, "ready", "ready", NoSong, NoPlayer)
  /\ UNCHANGED <<phase, botIn, submissions, nextQuestionSet,
                 pc, queued, elapsed, stateElapsed, currentState, isSelectingQuestion,
                 age, obsPhase, obsDwell, sends>>

\* what submitSong(song) leaves in the game: r1 answers the submit, then
\* handleDuplicateAndRetry (f: its snapshot request succeeded, alt: the first
\* good alternative not among the submitted song ids, r2 answers its submit)
\* or passTurn (r3 answers the pass)
submittedSongIds(subs) == {subs[i].song : i \in {j \in Idx(subs) : ~subs[j].hasPassed}}
passTurn(r3) == IF r3 = "ok" THEN Append(submissions, Entry(Bot, NoSong, TRUE)) ELSE submissions
handleDuplicateAndRetry(f, alt, r2, r3) ==
  IF ~f THEN passTurn(r3)
  ELSE IF alt = NoSong THEN passTurn(r3)
  ELSE IF r2 = "ok" THEN Append(submissions, Entry(Bot, alt, FALSE))
  ELSE passTurn(r3)
submitSong(song, r1, f, alt, r2, r3) ==
  IF r1 = "ok" THEN Append(submissions, Entry(Bot, song, FALSE))
  ELSE IF r1 = "dup" THEN handleDuplicateAndRetry(f, alt, r2, r3)
  ELSE passTurn(r3)

\* handleSelection's callback: submitSong(songChoice) or passTurn()
FireSubmit(t, r1, f, alt, r2, r3) ==
  /\ UNCHANGED <<call, spawnVars>>
  /\ t \in Pending /\ t.kind = "submit"
  /\ r1 \in (IF t.song = NoSong THEN {"none"} ELSE ServerSubmit(t.song))
  /\ r3 \in ServerPass
  /\ alt \in (Songs \ submittedSongIds(submissions)) \cup {NoSong}
  /\ r2 \in (IF r1 = "dup" /\ f /\ alt # NoSong THEN ServerSubmit(alt) ELSE {"none"})
  /\ submissions' = IF t.song = NoSong THEN passTurn(r3)
                    ELSE submitSong(t.song, r1, f, alt, r2, r3)
  /\ IF r1 = "dup" /\ f /\ t.gen = "cur"
     THEN /\ currentState' = phase
          /\ stateElapsed' = IF StateChanged(currentState, phase) THEN 0 ELSE stateElapsed
     ELSE UNCHANGED <<currentState, stateElapsed>>
  /\ UNCHANGED <<obsPhase, obsDwell>>
  /\ timers' = Cancel(t)
  /\ sends' = Sent("submit", t.gen)
  /\ ev' = FireEv(t, "submit", IF t.song = NoSong THEN "pass" ELSE "submit", t.song, NoPlayer)
  /\ UNCHANGED <<phase, botIn, botReady, nextQuestionSet,
                 pc, queued, elapsed, isSelectingQuestion, age>>

\* handleSelection's catch: setTimeout(() => this.passTurn(), 3000)
FirePass(t, r3) ==
  /\ UNCHANGED <<call, spawnVars>>
  /\ t \in Pending /\ t.kind = "pass"
  /\ r3 \in ServerPass
  /\ submissions' = passTurn(r3)
  /\ timers' = Cancel(t)
  /\ sends' = Sent("submit", t.gen)
  /\ ev' = FireEv(t, "submit", "pass", NoSong, NoPlayer)
  /\ UNCHANGED <<phase, botIn, botReady, nextQuestionSet,
                 pc, queued, elapsed, stateElapsed, currentState, isSelectingQuestion,
                 age, obsPhase, obsDwell>>

\* handleVoting's callback: makeSmartVotingChoice, then POST /game/vote
FireVote(t, choice, r) ==
  /\ UNCHANGED <<call, spawnVars>>
  /\ t \in Pending /\ t.kind = "vote"
  /\ choice \in SmartVotingChoices(t.votable, t.canSelf)
  /\ r \in ServerVote(choice)
  /\ submissions' = IF r = "ok" THEN AddVote(submissions, Bot, choice) ELSE submissions
  /\ timers' = Cancel(t)
  /\ sends' = Sent("vote", t.gen)
  /\ ev' = FireEv(t, "vote", "vote", NoSong, choice)
  /\ UNCHANGED <<phase, botIn, botReady, nextQuestionSet,
                 pc, queued, elapsed, stateElapsed, currentState, isSelectingQuestion,
                 age, obsPhase, obsDwell>>

\* handleQuestionSelection's callback: selectWinnerQuestion, then the flag is reset.
\* r1 answers the first set-winner-question, r2 the emergency question.
FireQuestion(t, r1, r2) ==
  /\ UNCHANGED <<call, spawnVars>>
  /\ t \in Pending /\ t.kind = "question"
  /\ r1 \in ServerQuestion
  /\ r2 \in (IF r1 = "ok" THEN {"none"} ELSE ServerQuestion)
  /\ nextQuestionSet' = (nextQuestionSet \/ r1 = "ok" \/ r2 = "ok")
  /\ isSelectingQuestion' = IF t.gen = "cur" THEN FALSE ELSE isSelectingQuestion
  /\ timers' = Cancel(t)
  /\ sends' = Sent("question", t.gen)
  /\ ev' = FireEv(t, "question", "question", NoSong, NoPlayer)
  /\ UNCHANGED <<phase, botIn, botReady, submissions,
                 pc, queued, elapsed, stateElapsed, currentState,
                 age, obsPhase, obsDwell>>

(***************************************************************************)
(* The rest of the world: the other players and the game's host.           *)
(***************************************************************************)
\* the game is followed while the session can still act on it
SessionActive == botIn /\ (pc \in {"running", "handedoff"} \/ timers # NoTimers)

OtherSubmits(p, s) ==
  /\ UNCHANGED <<call, spawnVars>>
  /\ SessionActive
  /\ phase = "selecting"
  /\ \A i \in Idx(submissions) : submissions[i].player # p
  /\ s = NoSong \/ s \notin submittedSongIds(submissions)
  /\ submissions' = Append(submissions, Entry(p, s, s = NoSong))
  /\ ev' = NoEv
  /\ UNCHANGED <<phase, botIn, botReady, nextQuestionSet,
                 workerVars, age, obsPhase, obsDwell, sends>>

OtherVotes(p, target) ==
  /\ UNCHANGED <<call, spawnVars>>
  /\ SessionActive
  /\ phase = "voting"
  /\ \A i \in Idx(submissions) : p \notin submissions[i].votes
  /\ target # p
  /\ \E i \in Idx(submissions) : submissions[i].player = target /\ ~submissions[i].hasPassed
  /\ submissions' = AddVote(submissions, p, target)
  /\ ev' = NoEv
  /\ UNCHANGED <<phase, botIn, botReady, nextQuestionSet,
                 workerVars, age, obsPhase, obsDwell, sends>>

NextPhases(ph) ==
  CASE ph = "waiting" -> {"selecting"}
    [] ph = "selecting" -> {"voting"}
    [] ph = "voting" -> {"results"}
    [] ph = "results" -> {"question-selection", "ended"}
    [] ph = "question-selection" -> {"selecting", "ended"}
    [] ph = "ended" -> {}

\* a callback is due within 12 s: it stays pending over at most MaxPhaseLag
\* changes of phase
Lagged(b) == [u \in {[t EXCEPT !.lag = @ + 1] : t \in BagToSet(b)} |->
                CopiesIn([u EXCEPT !.lag = @ - 1], b)]

AdvancePhase(ph) ==
  /\ UNCHANGED <<call, spawnVars>>
  /\ SessionActive
  /\ ph \in NextPhases(phase)
  /\ \A t \in Pending : t.lag < MaxPhaseLag
  /\ timers' = Lagged(timers)
  /\ phase = "waiting" => botReady          \* the host starts once everyone is ready
  /\ phase' = ph
  /\ sends' = NoSends
  /\ IF ph = "selecting"
     THEN /\ submissions' = <<>>
          /\ nextQuestionSet' = FALSE
     ELSE UNCHANGED <<submissions, nextQuestionSet>>
  /\ ev' = NoEv
  /\ UNCHANGED <<botIn, botReady, pc, queued, elapsed, stateElapsed, currentState,
                 isSelectingQuestion, age, obsPhase, obsDwell>>

\* the bot is removed from the game, in the lobby or while songs are selected
RemoveBot ==
  /\ UNCHANGED <<call, spawnVars>>
  /\ SessionActive
  /\ phase \in {"waiting", "selecting"}
  /\ botIn' = FALSE
  /\ ev' = NoEv
  /\ UNCHANGED <<phase, botReady, submissions, nextQuestionSet,
                 workerVars, age, obsPhase, obsDwell, sends>>


\* The inputs a step does not read are fixed, so that each outcome is drawn once.
\* The songs are interchangeable: the bot's pipeline proposes this one first.
FirstChoices == {"s1"}
SelectionInputs ==
  IF phase = "selecting" /\ ~BotHasEntry
  THEN {<<TRUE, c>> : c \in FirstChoices \cup {NoSong}} \cup {<<FALSE, NoSong>>}
  ELSE {<<TRUE, NoSong>>}
RosterInputs == IF phase = "voting" THEN Rosters ELSE {<<2, 2>>}
InvokeInputs(d) == IF ShouldHandOff(elapsed + d) THEN BOOLEAN ELSE {TRUE}
KeepInputs(d, q, choice, roster) ==
  IF phase = "ended" \/ ~botIn \/ ShouldHandOff(elapsed + d)
  THEN BagToSet(AfterPoll(d, q, choice, roster)) \cup {NoTimer}
  ELSE {NoTimer}
RetryInputs(r1) ==
  IF r1 = "dup"
  THEN {<<FALSE, NoSong>>} \cup {<<TRUE, a>> : a \in (Songs \ submittedSongIds(submissions)) \cup {NoSong}}
  ELSE {<<TRUE, NoSong>>}
PassInputs(r1, r2) == IF r1 = "ok" \/ r2 = "ok" THEN {"err"} ELSE ServerPass

PollOkStep(d) ==
  \E sel \in SelectionInputs : \E roster \in RosterInputs :
    \E invokeOk \in InvokeInputs(d) : \E keep \in KeepInputs(d, sel[1], sel[2], roster) :
      PollOk(d, sel[1], sel[2], invokeOk, roster, keep)
PollEmptyStep(d) == \E keep \in Pending \cup {NoTimer} : PollEmpty(d, keep)
FireReadyStep == \E t \in Pending : \E r \in ServerReady : FireReady(t, r)
FireSubmitStep ==
  \E t \in Pending : \E r1 \in (IF t.song = NoSong THEN {"none"} ELSE ServerSubmit(t.song)) :
    \E ra \in RetryInputs(r1) :
      \E r2 \in (IF r1 = "dup" /\ ra[1] /\ ra[2] # NoSong THEN ServerSubmit(ra[2]) ELSE {"none"}) :
        \E r3 \in PassInputs(r1, r2) : FireSubmit(t, r1, ra[1], ra[2], r2, r3)
FirePassStep == \E t \in Pending : \E r3 \in ServerPass : FirePass(t, r3)
FireVoteStep ==
  \E t \in Pending : \E choice \in {t.votable[i] : i \in Idx(t.votable)} :
    \E r \in ServerVote(choice) : FireVote(t, choice, r)
FireQuestionStep ==
  \E t \in Pending : \E r1 \in ServerQuestion :
    \E r2 \in (IF r1 = "ok" THEN {"none"} ELSE ServerQuestion) : FireQuestion(t, r1, r2)

Next ==
  \/ \E d \in Latencies : PollOkStep(d)
  \/ \E d \in Latencies : PollEmptyStep(d)
  \/ \E d \in Latencies : PollFail(d)
  \/ \E d \in Latencies : HostKill(d)
  \/ StartContinuation
  \/ FireReadyStep
  \/ FireSubmitStep
  \/ FirePassStep
  \/ FireVoteStep
  \/ FireQuestionStep
  \/ \E p \in Others, s \in Songs \cup {NoSong} : OtherSubmits(p, s)
  \/ \E p \in Others, target \in Players : OtherVotes(p, target)
  \/ \E ph \in Phases : AdvancePhase(ph)
  \/ RemoveBot

Spec == Init /\ [][Next]_vars

(***************************************************************************)
(* The same program, started as the continuation of a session that was     *)
(* spawned more than MAX_AGE ago.  Nothing an invocation does reads the    *)
(* age of its session, so every state below is one the session reaches by  *)
(* handing off often enough in that game state.                            *)
(***************************************************************************)
InitOld ==
  /\ phase = "waiting"
  /\ botIn = TRUE
  /\ botReady = FALSE
  /\ submissions = <<>>
  /\ nextQuestionSet = FALSE
  /\ pc = "running"
  /\ queued = FALSE
  /\ elapsed = 0
  /\ stateElapsed = 0
  /\ currentState = Null
  /\ isSelectingQuestion = FALSE
  /\ timers = NoTimers
  /\ age = AgeCap
  /\ obsPhase = Null
  /\ obsDwell = 0
  /\ sends = NoSends
  /\ ev = NoEv
  /\ call = NoCall
  /\ SpawnIdle

SpecOld == InitOld /\ [][Next]_vars

(***************************************************************************)
(* Fair scheduling: the loop of a running invocation keeps iterating, time *)
(* does not stand still (an invocation that can reach its handoff margin   *)
(* does), a queued continuation starts, and a pending callback runs.  The  *)
(* backend does not refuse the ready request forever and a game that has   *)
(* started runs to its end; a game in the lobby is under no obligation to  *)
(* start.                                                                  *)
(***************************************************************************)
Fairness ==
  /\ WF_vars(\E d \in Latencies : PollOkStep(d))
  /\ SF_vars(PollOkStep(LongFetch) \/ PollFail(LongFetch) \/ HostKill(LongFetch))
  /\ WF_vars(StartContinuation)
  /\ WF_vars(FireReadyStep) /\ WF_vars(FireSubmitStep) /\ WF_vars(FirePassStep)
  /\ WF_vars(FireVoteStep) /\ WF_vars(FireQuestionStep)
  /\ SF_vars(\E t \in Pending : FireReady(t, "ok"))
  /\ \A ph \in {"voting", "results", "question-selection", "ended"} : SF_vars(AdvancePhase(ph))

FairSpecOld == InitOld /\ [][Next]_vars /\ Fairness

(***************************************************************************)
(* Library functions on their own.  The session is parked in its initial   *)
(* state; `call` holds the arguments of one call and, once the call has    *)
(* been evaluated, what it returned.                                       *)
(***************************************************************************)
Parked ==
  /\ phase = "waiting"
  /\ botIn = TRUE
  /\ botReady = FALSE
  /\ submissions = <<>>
  /\ nextQuestionSet = FALSE
  /\ pc = "running"
  /\ queued = FALSE
  /\ elapsed = 0
  /\ stateElapsed = 0
  /\ currentState = Null
  /\ isSelectingQuestion = FALSE
  /\ timers = NoTimers
  /\ age = 0
  /\ obsPhase = Null
  /\ obsDwell = 0
  /\ sends = NoSends
  /\ ev = NoEv
sessionVars == <<gameVars, workerVars, obsVars>>

(***************************************************************************)
(* isBotTheWinner, with the submissions as the snapshot carries them: an   *)
(* entry has a player, a votes array (or none), a submittedAt timestamp    *)
(* and hasPassed.                                                          *)
(***************************************************************************)
NoVotesArray == 0 - 1
VoteLens == {NoVotesArray, 0, 1, 2}   \* votes?.length, NoVotesArray: votes is missing
Stamps == {1, 2, 3}                   \* new Date(submittedAt), as a number
\* (b.votes?.length || 0)
votesLength(s) == IF s.votes = NoVotesArray THEN 0 ELSE s.votes

\* (variant with the time difference reversed)
compareSubmissions_latestFirst(a, b) ==
  LET voteDiff == votesLength(b) - votesLength(a)
  IN  IF voteDiff # 0 THEN voteDiff ELSE b.submittedAt - a.submittedAt
\* the comparator of the sort: negative puts a first
compareSubmissions(a, b) ==
  LET voteDiff == votesLength(b) - votesLength(a)
  IN  IF voteDiff # 0 THEN voteDiff ELSE a.submittedAt - b.submittedAt

\* Array.prototype.sort is stable: x goes behind everything that does not
\* compare greater than it
RECURSIVE InsertSorted(_, _)
InsertSorted(x, sorted) ==
  IF sorted = <<>> THEN <<x>>
  ELSE IF compareSubmissions(Head(sorted), x) <= 0
       THEN <<Head(sorted)>> \o InsertSorted(x, Tail(sorted))
       ELSE <<x>> \o sorted
RECURSIVE sortedSubmissions(_)
sortedSubmissions(actual) ==
  IF actual = <<>> THEN <<>>
  ELSE InsertSorted(actual[Len(actual)], sortedSubmissions(SubSeq(actual, 1, Len(actual) - 1)))

\* what isBotTheWinner computes: the sorted list and its answer
winnerDetermination(subs) ==
  LET actualSubmissions == SelectSeq(subs, NotPassed)
  IN  IF Len(subs) = 0 THEN [sorted |-> <<>>, isWinner |-> FALSE]
      ELSE IF Len(actualSubmissions) = 0 THEN [sorted |-> <<>>, isWinner |-> FALSE]
      ELSE LET sorted == sortedSubmissions(actualSubmissions)
           IN  [sorted |-> sorted, isWinner |-> sorted[1].player = Bot]

\* the snapshots given to it: up to MaxSubs entries of distinct players, the
\* bot's at position botAt (0: the bot has none)
WinnerEntries == [votes : VoteLens, submittedAt : Stamps, hasPassed : BOOLEAN]
WinnerLists == UNION {[1..n -> WinnerEntries] : n \in 0..MaxSubs}
OtherNames == <<"p1", "p2", "p3", "p4">>
WinnerSnapshot(l, botAt) ==
  [i \in 1..Len(l) |->
     [player |-> IF i = botAt THEN Bot ELSE OtherNames[i], votes |-> l[i].votes,
      submittedAt |-> l[i].submittedAt, hasPassed |-> l[i].hasPassed]]

InitWinner ==
  /\ Parked
  /\ SpawnIdle
  /\ \E l \in WinnerLists : \E botAt \in 0..Len(l) :
       call = [fn |-> "isBotTheWinner", subs |-> WinnerSnapshot(l, botAt), done |-> FALSE,
               out |-> [sorted |-> <<>>, isWinner |-> FALSE]]

EvalWinner ==
  /\ call.fn = "isBotTheWinner"
  /\ ~call.done
  /\ call' = [call EXCEPT !.done = TRUE, !.out = winnerDetermination(call.subs)]
  /\ UNCHANGED <<sessionVars, spawnVars>>

SpecWinner == InitWinner /\ [][EvalWinner]_vars

(***************************************************************************)
(* getAISongSuggestions and its fallback table.                            *)
(***************************************************************************)
\* process.env.OPENAI_API_KEY
ApiKeys == {"undefined", "", "sk-key"}
Truthy(str) == str # "undefined" /\ str # ""
Personalities == {"eclectic", "mainstream", "indie", "vintage", "analytical", "other"}
\* a question text, as the set of the keywords it includes
Keywords == {"beatles", "taylor swift", "90s", "sad", "cry", "happy", "dance"}
QuestionTexts == {t \in SUBSET Keywords : Cardinality(t) <= 2}
\* what the completion request does
ProviderOutcomes == {"suggestions", "no array", "extractable", "unparsable", "error"}

Song(a, t) == [artist |-> a, song |-> t]
personalityDefaults(personality) ==
  CASE personality = "mainstream" ->
         <<Song("Ed Sheeran", "Shape of You"), Song("Adele", "Rolling in the Deep"),
           Song("The Weeknd", "Blinding Lights")>>
    [] personality = "indie" ->
         <<Song("Arctic Monkeys", "Do I Wanna Know?"), Song("Vampire Weekend", "A-Punk"),
           Song("The Strokes", "Last Nite")>>
    [] personality = "vintage" ->
         <<Song("Fleetwood Mac", "Dreams"), Song("David Bowie", "Heroes"),
           Song("Queen", "Bohemian Rhapsody")>>
    [] personality = "analytical" ->
         <<Song("Radiohead", "Paranoid Android"), Song("Pink Floyd", "Comfortably Numb"),
           Song("Tool", "Schism")>>
    [] OTHER ->        \* eclectic, and personalityDefaults.eclectic for an unknown key
         <<Song("Tame Impala", "The Less I Know The Better"), Song("FKA twigs", "Two Weeks"),
           Song("King Gizzard", "Inner Cell")>>

getFallbackSuggestions(text, personality) ==
  IF "beatles" \in text
  THEN <<Song("The Beatles", "Hey Jude"), Song("The Beatles", "Let It Be"),
         Song("The Beatles", "Come Together")>>
  ELSE IF "taylor swift" \in text
  THEN <<Song("Taylor Swift", "Shake It Off"), Song("Taylor Swift", "Love Story"),
         Song("Taylor Swift", "Anti-Hero")>>
  ELSE IF "90s" \in text
  THEN <<Song("Nirvana", "Smells Like Teen Spirit"), Song("Alanis Morissette", "You Oughta Know"),
         Song("TLC", "Waterfalls")>>
  ELSE IF "sad" \in text \/ "cry" \in text
  THEN <<Song("Johnny Cash", "Hurt"), Song("Mad World", "Gary Jules"),
         Song("The Sound of Silence", "Simon & Garfunkel")>>
  ELSE IF "happy" \in text \/ "dance" \in text
  THEN <<Song("Pharrell Williams", "Happy"), Song("Bruno Mars", "Uptown Funk"),
         Song("Daft Punk", "Get Lucky")>>
  ELSE personalityDefaults(personality)

\* what the provider's answer yields when it carries suggestions
ProviderList == <<Song("AI artist", "AI song")>>
Suggestions(list, n) == [isNull |-> FALSE, list |-> list, requests |-> n]
NoSuggestions(n) == [isNull |-> TRUE, list |-> <<>>, requests |-> n]

\* requests: the completion requests sent
getAISongSuggestions(key, text, personality, outcome) ==
  IF ~Truthy(key) THEN NoSuggestions(0)                       \* "will pass"
  ELSE CASE outcome = "suggestions" -> Suggestions(ProviderList, 1)
         [] outcome = "no array" -> Suggestions(getFallbackSuggestions(text, personality), 1)
         [] outcome = "extractable" -> Suggestions(ProviderList, 1)
         [] outcome = "unparsable" -> Suggestions(getFallbackSuggestions(text, personality), 1)
         [] outcome = "error" -> NoSuggestions(1)

InitSuggest ==
  /\ Parked
  /\ SpawnIdle
  /\ \E key \in ApiKeys, text \in QuestionTexts, personality \in Personalities,
        outcome \in ProviderOutcomes :
       call = [fn |-> "getAISongSuggestions", key |-> key, text |-> text,
               personality |-> personality, outcome |-> outcome, done |-> FALSE,
               out |-> NoSuggestions(0)]

EvalSuggest ==
  /\ call.fn = "getAISongSuggestions"
  /\ ~call.done
  /\ call' = [call EXCEPT !.done = TRUE,
                !.out = getAISongSuggestions(call.key, call.text, call.personality, call.outcome)]
  /\ UNCHANGED <<sessionVars, spawnVars>>

SpecSuggest == InitSuggest /\ [][EvalSuggest]_vars

(***************************************************************************)
(* Strings, as sequences of characters, with the String methods the        *)
(* matcher uses.                                                           *)
(***************************************************************************)
UpperChars == <<"A", "B", "D", "H", "J", "Q", "T", "W">>
LowerChars == <<"a", "b", "d", "h", "j", "q", "t", "w">>
lowerChar(c) ==
  IF \E i \in 1..Len(UpperChars) : UpperChars[i] = c
  THEN LowerChars[CHOOSE i \in 1..Len(UpperChars) : UpperChars[i] = c]
  ELSE c
toLowerCase(str) == [i \in 1..Len(str) |-> lowerChar(str[i])]
IsSpace(c) == c = " "
\* String.prototype.includes
includes(str, sub) ==
  \E i \in 1..(Len(str) - Len(sub) + 1) : SubSeq(str, i, i + Len(sub) - 1) = sub
RECURSIVE trimStart(_)
trimStart(str) == IF str # <<>> /\ IsSpace(Head(str)) THEN trimStart(Tail(str)) ELSE str
RECURSIVE trimEnd(_)
trimEnd(str) ==
  IF str # <<>> /\ IsSpace(str[Len(str)]) THEN trimEnd(SubSeq(str, 1, Len(str) - 1)) ELSE str
trim(str) == trimEnd(trimStart(str))

the == <<"t", "h", "e">>
band == <<"b", "a", "n", "d">>
instrumental == <<"i", "n", "s", "t", "r", "u", "m", "e", "n", "t", "a", "l">>
karaoke == <<"k", "a", "r", "a", "o", "k", "e">>
cover == <<"c", "o", "v", "e", "r">>
remix == <<"r", "e", "m", "i", "x">>

\* str.replace(/^the\s+/i, '')
stripLeadingThe(str) ==
  IF Len(str) > 3 /\ toLowerCase(SubSeq(str, 1, 3)) = the /\ IsSpace(str[4])
  THEN trimStart(SubSeq(str, 4, Len(str)))
  ELSE str
\* str.replace(/\s+band$/i, '')
stripTrailingBand(str) ==
  IF /\ Len(str) > 4
     /\ toLowerCase(SubSeq(str, Len(str) - 3, Len(str))) = band
     /\ IsSpace(str[Len(str) - 4])
  THEN trimEnd(SubSeq(str, 1, Len(str) - 4))
  ELSE str

(***************************************************************************)
(* findBestMatch, isGoodMatch and areArtistsSimilar.                       *)
(***************************************************************************)
\* the score findBestMatch gives one search result
matchScore(result, suggestion) ==
  LET targetArtist == toLowerCase(suggestion.artist)
      targetSong == toLowerCase(suggestion.song)
      resultArtist == toLowerCase(result.artist)
      resultSong == toLowerCase(result.name)
      artistScore == IF resultArtist = targetArtist THEN 100
                     ELSE IF includes(resultArtist, targetArtist) \/ includes(targetArtist, resultArtist)
                     THEN 50 ELSE 0
      songScore == IF resultSong = targetSong THEN 80
                   ELSE IF includes(resultSong, targetSong) \/ includes(targetSong, resultSong)
                   THEN 40 ELSE 0
      penalty == IF \/ includes(resultSong, instrumental) \/ includes(resultSong, karaoke)
                    \/ includes(resultSong, cover) \/ includes(resultSong, remix)
                 THEN 30 ELSE 0
  IN  artistScore + songScore - penalty

\* the loop over the search results, from result i on
RECURSIVE bestMatchFrom(_, _, _, _, _)
bestMatchFrom(searchResults, suggestion, i, bestMatch, bestScore) ==
  IF i > Len(searchResults) THEN [index |-> bestMatch, score |-> bestScore]
  ELSE LET score == matchScore(searchResults[i], suggestion)
       IN  IF score > bestScore
           THEN bestMatchFrom(searchResults, suggestion, i + 1, i, score)
           ELSE bestMatchFrom(searchResults, suggestion, i + 1, bestMatch, bestScore)

\* index: the position of the result that is returned
findBestMatch(searchResults, suggestion) == bestMatchFrom(searchResults, suggestion, 1, 1, 0)

areArtistsSimilar(artist1, artist2) ==
  LET clean1 == stripTrailingBand(stripLeadingThe(artist1))
      clean2 == stripTrailingBand(stripLeadingThe(artist2))
  IN  includes(clean1, clean2) \/ includes(clean2, clean1)

\* (variant that also wants the titles to match)
isGoodMatch_withSong(match, suggestion) ==
  LET matchSong == trim(toLowerCase(match.name))
      targetSong == trim(toLowerCase(suggestion.song))
  IN  /\ areArtistsSimilar(trim(toLowerCase(match.artist)), trim(toLowerCase(suggestion.artist)))
      /\ (includes(matchSong, targetSong) \/ includes(targetSong, matchSong))
isGoodMatch(match, suggestion) ==
  LET matchArtist == trim(toLowerCase(match.artist))
      targetArtist == trim(toLowerCase(suggestion.artist))
      artistMatch1 == includes(matchArtist, targetArtist)
      artistMatch2 == includes(targetArtist, matchArtist)
      artistSimilar == areArtistsSimilar(matchArtist, targetArtist)
  IN  artistMatch1 \/ artistMatch2 \/ artistSimilar

\* the names the matcher is examined on
Str_TheBeatles == <<"T", "h", "e", " ", "B", "e", "a", "t", "l", "e", "s">>
Str_Queen == <<"Q", "u", "e", "e", "n">>
Str_Who == <<"W", "h", "o">>
Str_Beatles == <<"B", "e", "a", "t", "l", "e", "s">>
Str_beatlesBand == <<"b", "e", "a", "t", "l", "e", "s", " ", "b", "a", "n", "d">>
Str_queenPadded == <<" ", "q", "u", "e", "e", "n">>
Str_TheWho == <<"T", "h", "e", " ", "W", "h", "o">>
Str_The == <<"T", "h", "e">>
Str_HeyJude == <<"H", "e", "y", " ", "J", "u", "d", "e">>
Str_HeyJudeRemix == <<"H", "e", "y", " ", "J", "u", "d", "e", " ", "r", "e", "m", "i", "x">>
Str_DreamsCover == <<"D", "r", "e", "a", "m", "s", " ", "c", "o", "v", "e", "r">>
Str_Dreams == <<"D", "r", "e", "a", "m", "s">>
Str_Jude == <<"J", "u", "d", "e">>
ResultArtists == {Str_TheBeatles, Str_Queen, Str_Who, Str_The}
ResultNames == {Str_HeyJude, Str_HeyJudeRemix, Str_DreamsCover, Str_Dreams}
TargetArtists == {Str_Beatles, Str_beatlesBand, Str_queenPadded, Str_TheWho}
TargetSongs == {Str_HeyJude, Str_Jude}
SearchResult == [artist : ResultArtists, name : ResultNames]
Suggestion == [artist : TargetArtists, song : TargetSongs]
SearchResultLists == UNION {[1..n -> SearchResult] : n \in 1..MaxResults}

NoMatchOut == [index |-> 0, score |-> 0, isGood |-> FALSE]
InitMatch ==
  /\ Parked
  /\ SpawnIdle
  /\ \/ \E l \in SearchResultLists, c \in Suggestion :
          call = [fn |-> "findBestMatch", searchResults |-> l, suggestion |-> c,
                  done |-> FALSE, out |-> NoMatchOut]
     \/ \E m \in SearchResult, c \in Suggestion :
          call = [fn |-> "isGoodMatch", searchResults |-> <<m>>, suggestion |-> c,
                  done |-> FALSE, out |-> NoMatchOut]

EvalBestMatch ==
  /\ call.fn = "findBestMatch"
  /\ ~call.done
  /\ LET r == findBestMatch(call.searchResults, call.suggestion)
     IN  call' = [call EXCEPT !.done = TRUE,
                    !.out = [index |-> r.index, score |-> r.score, isGood |-> FALSE]]
  /\ UNCHANGED <<sessionVars, spawnVars>>

EvalGoodMatch ==
  /\ call.fn = "isGoodMatch"
  /\ ~call.done
  /\ call' = [call EXCEPT !.done = TRUE,
                !.out = [NoMatchOut EXCEPT !.isGood = isGoodMatch(call.searchResults[1], call.suggestion)]]
  /\ UNCHANGED <<sessionVars, spawnVars>>

NextMatch == EvalBestMatch \/ EvalGoodMatch
SpecMatch == InitMatch /\ [][NextMatch]_vars

(***************************************************************************)
(* retryWithBackoff and isRetryableError (spawn-bot handler).  The         *)
(* operation is given by what its successive invocations do.               *)
(***************************************************************************)
\* an error as the wrapper reads it: error.response?.status (0: no response)
\* and error.code
Failure(status, code) == [status |-> status, code |-> code]
Success == Failure(200, "")
NoError == Failure(0, "none")
Failures ==
  {Failure(404, ""), Failure(429, ""), Failure(500, ""), Failure(503, ""),
   Failure(0, "ECONNRESET"), Failure(0, "ETIMEDOUT"), Failure(0, "ENOTFOUND"),
   Failure(0, "ECONNREFUSED"), Failure(0, "ECONNABORTED"), Failure(0, "")}
Outcomes == Failures \cup {Success}
BaseDelays == {1000, 2000}

\* (variant that does not retry server errors)
isRetryableError_no5xx(error) ==
  \/ error.status = 429
  \/ error.code \in {"ECONNRESET", "ETIMEDOUT", "ENOTFOUND", "ECONNREFUSED"}
isRetryableError(error) ==
  IF error.status = 429 THEN TRUE
  ELSE IF error.status >= 500 THEN TRUE
  ELSE IF error.code \in {"ECONNRESET", "ETIMEDOUT", "ENOTFOUND", "ECONNREFUSED"} THEN TRUE
  ELSE FALSE

\* (variant that never takes the attempt for the last)
lastAttempt_never(attempt, maxRetries) == FALSE
\* attempt === maxRetries
lastAttempt(attempt, maxRetries) == attempt = maxRetries

\* the loop from `attempt` on.  calls: invocations of the operation so far;
\* sleeps: the sleeps so far, each with the invocation it followed and its
\* delay without the jitter
RECURSIVE retryFrom(_, _, _, _, _, _)
retryFrom(operation, maxRetries, baseDelay, attempt, sleeps, lastError) ==
  IF attempt > maxRetries
  THEN [calls |-> attempt, sleeps |-> sleeps, threw |-> TRUE, error |-> lastError,
        errorOf |-> attempt]
  ELSE LET result == operation[attempt + 1]
       IN  IF result = Success
           THEN [calls |-> attempt + 1, sleeps |-> sleeps, threw |-> FALSE, error |-> NoError,
                 errorOf |-> 0]
           ELSE IF lastAttempt(attempt, maxRetries) \/ ~isRetryableError(result)
           THEN [calls |-> attempt + 1, sleeps |-> sleeps, threw |-> TRUE, error |-> result,
                 errorOf |-> attempt + 1]
           ELSE retryFrom(operation, maxRetries, baseDelay, attempt + 1,
                          Append(sleeps, [after |-> attempt + 1, delay |-> baseDelay * 2^attempt]),
                          result)

retryWithBackoff(operation, maxRetries, baseDelay) ==
  retryFrom(operation, maxRetries, baseDelay, 0, <<>>, NoError)

NoRetryOut == [calls |-> 0, sleeps |-> <<>>, threw |-> FALSE, error |-> NoError, errorOf |-> 0]
InitRetry ==
  /\ Parked
  /\ SpawnIdle
  /\ \E maxRetries \in 0..MaxRetries, baseDelay \in BaseDelays :
       \E operation \in [1..(maxRetries + 2) -> Outcomes] :
         /\ operation[maxRetries + 2] = Success
         /\ call = [fn |-> "retryWithBackoff", operation |-> operation, maxRetries |-> maxRetries,
                    baseDelay |-> baseDelay, done |-> FALSE, out |-> NoRetryOut]

EvalRetry ==
  /\ call.fn = "retryWithBackoff"
  /\ ~call.done
  /\ call' = [call EXCEPT !.done = TRUE,
                !.out = retryWithBackoff(call.operation, call.maxRetries, call.baseDelay)]
  /\ UNCHANGED <<sessionVars, spawnVars>>

SpecRetry == InitRetry /\ [][EvalRetry]_vars

(***************************************************************************)
(* The spawn-bot process: one request after another, each handled to its   *)
(* response.  Time is Date.now() in ticks; a request is handled within the *)
(* tick it arrives in.                                                     *)
(***************************************************************************)
\* (variant in which a rejected call stamps the time)
checkRateLimit_stamping(t, attempts, last) ==
  LET reset == t - last > Window
      a == IF reset THEN 0 ELSE attempts
      l == IF reset THEN t ELSE last
  IN  IF a >= MAX_SPAWNS_PER_MINUTE
      THEN [spawnAttempts |-> a, lastSpawnTime |-> t, threw |-> TRUE]
      ELSE [spawnAttempts |-> a + 1, lastSpawnTime |-> t, threw |-> FALSE]
\* (variant whose window starts at the reset and is not moved by later requests)
checkRateLimit_fixedWindow(t, attempts, last) ==
  LET reset == t - last > Window
      a == IF reset THEN 0 ELSE attempts
      l == IF reset THEN t ELSE last
  IN  IF a >= MAX_SPAWNS_PER_MINUTE
      THEN [spawnAttempts |-> a, lastSpawnTime |-> l, threw |-> TRUE]
      ELSE [spawnAttempts |-> a + 1, lastSpawnTime |-> l, threw |-> FALSE]
\* checkRateLimit at Date.now() = t: the counter and the time stamp it leaves,
\* and whether it threw
checkRateLimit(t, attempts, last) ==
  LET reset == t - last > Window
      a == IF reset THEN 0 ELSE attempts
      l == IF reset THEN t ELSE last
  IN  IF a >= MAX_SPAWNS_PER_MINUTE
      THEN [spawnAttempts |-> a, lastSpawnTime |-> l, threw |-> TRUE]
      ELSE [spawnAttempts |-> a + 1, lastSpawnTime |-> t, threw |-> FALSE]

\* what the successive invocations of a wrapped request do
\* registerBot retries 5 times: 6 invocations at most
ScriptLen == 5 + 2
Always(o) == [i \in 1..ScriptLen |-> o]
FailsThenOk(o, k) == [i \in 1..ScriptLen |-> IF i <= k THEN o ELSE Success]
Scripts ==
  {Always(Success), Always(Failure(404, "")), Always(Failure(429, "")),
   Always(Failure(503, "")), FailsThenOk(Failure(503, ""), 1)}

\* the request body: gameCode and personality, either of which may be absent
GameCodes == {"undefined", "GAME01"}
RequestPersonalities == {"undefined", "indie", "techno"}
\* PERSONALITIES[personality] || PERSONALITIES.eclectic, by its name
botConfigOf(personality) ==
  CASE personality = "eclectic" -> "Eclectic Explorer"
    [] personality = "mainstream" -> "Chart Topper"
    [] personality = "indie" -> "Indie Insider"
    [] personality = "vintage" -> "Time Traveler"
    [] personality = "analytical" -> "Music Scholar"
    [] OTHER -> "Eclectic Explorer"
\* (variant without the default of the destructuring)
personalityOf_asSent(sent) == sent
\* const { gameCode, personality = 'eclectic', gameId } = JSON.parse(event.body || '{}')
personalityOf(sent) == IF sent = "undefined" THEN "eclectic" ELSE sent

\* what the backend answers to a registration and to a join
botUser == [id |-> "bot1", displayName |-> "indie_bot_1234"]
registrationData == [user |-> botUser, sessionToken |-> "token1"]
joinData == [gameId |-> "game1"]

workerPayload(gameCode, personality) ==
  [k \in EventKeys |->
     CASE k = "botId" -> registrationData.user.id
       [] k = "botName" -> registrationData.user.displayName
       [] k = "gameCode" -> gameCode
       [] k = "gameId" -> joinData.gameId
       [] k = "sessionToken" -> registrationData.sessionToken
       [] k = "personality" -> personality
       [] k = "personalityConfig" -> botConfigOf(personality)]

RECURSIVE SumDelays(_)
SumDelays(sleeps) ==
  IF sleeps = <<>> THEN 0 ELSE sleeps[1].delay + SumDelays(Tail(sleeps))
\* the least time the retries of a wrapped request take: its sleeps without jitter
Waited(r) == SumDelays(r.sleeps)
SpawnLimit == SpawnTimeout * 1000

registerBot(regScript) == retryWithBackoff(regScript, 5, 2000)
joinGame(joinScript) == retryWithBackoff(joinScript, 3, 1000)
startWorker(invokeScript) == retryWithBackoff(invokeScript, 3, 1000)

\* (variant that leaves a join failure to the outer catch)
joinFailure_uncaught(registered) ==
  [registered EXCEPT !.statusCode = 500, !.error = "Failed to spawn bot"]
\* catch (joinError): the response to a join that failed after its retries
joinFailure(registered) ==
  [registered EXCEPT !.statusCode = 500, !.error = "Game join failed",
                     !.botId = botUser.id, !.botName = botUser.displayName]

\* exports.handler once the rate limit has let the request through.  steps:
\* the steps begun, in order; failed: the step whose request failed for good;
\* registered, joined: what the backend has recorded; workers: the
\* lambda.invoke requests accepted
spawnSteps(gameCode, sentPersonality, regScript, joinScript, invokeScript) ==
  LET personality == personalityOf(sentPersonality)
      reg == registerBot(regScript)
      join == joinGame(joinScript)
      inv == startWorker(invokeScript)
      R == [NoResp EXCEPT !.steps = <<"rateLimit">>]
      registering == [R EXCEPT !.steps = <<"rateLimit", "register">>]
      registered == [R EXCEPT !.steps = <<"rateLimit", "register", "join">>,
                              !.registered = TRUE]
      joined == [registered EXCEPT !.steps = <<"rateLimit", "register", "join", "worker">>,
                                   !.joined = TRUE]
      named == [joined EXCEPT !.statusCode = 200, !.success = TRUE,
                              !.botId = botUser.id, !.botName = botUser.displayName]
  IN  IF gameCode = "undefined"
      THEN [R EXCEPT !.statusCode = 400, !.error = "Game code is required"]
      ELSE IF Waited(reg) >= SpawnLimit
      THEN [registering EXCEPT !.error = "timeout"]
      ELSE IF reg.threw
      THEN IF reg.error.status = 429
           THEN [registering EXCEPT !.failed = "register", !.statusCode = 429,
                                    !.error = "API rate limit exceeded"]
           ELSE [registering EXCEPT !.failed = "register", !.statusCode = 500,
                                    !.error = "Bot registration failed"]
      ELSE IF Waited(reg) + Waited(join) >= SpawnLimit
      THEN [registered EXCEPT !.error = "timeout"]
      ELSE IF join.threw
      THEN joinFailure([registered EXCEPT !.failed = "join"])
      ELSE IF Waited(reg) + Waited(join) + Waited(inv) >= SpawnLimit
      THEN [joined EXCEPT !.error = "timeout"]
      ELSE IF inv.threw
      THEN [named EXCEPT !.failed = "worker"]
      ELSE [named EXCEPT !.workers = 1,
                         !.payload = JsonParse(JsonStringify(workerPayload(gameCode, personality)))]

\* the requests told apart: a step that is not reached has one script only
SpawnInputs ==
  {in \in GameCodes \X RequestPersonalities \X Scripts \X Scripts \X Scripts :
     /\ in[1] = "undefined" => in[2] = "undefined" /\ in[3] = Always(Success)
     /\ (in[1] = "undefined" \/ registerBot(in[3]).threw) => in[4] = Always(Success)
     /\ (in[1] = "undefined" \/ registerBot(in[3]).threw \/ joinGame(in[4]).threw)
          => in[5] = Always(Success)}
\* exports.handler for each of them
spawnResponses ==
  [in \in SpawnInputs |-> spawnSteps(in[1], in[2], in[3], in[4], in[5])]

\* the requests that came at ages 1..a
RECURSIVE SumSent(_, _)
SumSent(r, a) == IF a = 0 THEN 0 ELSE r[a].sent + SumSent(r, a - 1)
RECURSIVE SumPassed(_, _)
SumPassed(r, a) == IF a = 0 THEN 0 ELSE r[a].passed + SumPassed(r, a - 1)

\* exports.handler (spawn-bot) for one request
SpawnRequest(gameCode, sentPersonality, regScript, joinScript, invokeScript) ==
  /\ recent[0].sent < MaxBurst
  /\ LET rl == checkRateLimit(clock, spawnAttempts, lastSpawnTime)
         came == [recent EXCEPT ![0].sent = @ + 1]
         InWindow == came[0].sent + SumSent(came, Window)
     IN  /\ spawnAttempts' = rl.spawnAttempts
         /\ lastSpawnTime' = rl.lastSpawnTime
         /\ burst' = (burst \/ InWindow > MAX_SPAWNS_PER_MINUTE)
         /\ IF rl.threw
            THEN /\ recent' = came
                 /\ resp' = [NoResp EXCEPT !.steps = <<"rateLimit">>, !.statusCode = 429,
                                           !.error = "Rate limit exceeded"]
            ELSE /\ recent' = [came EXCEPT ![0].passed = @ + 1]
                 /\ resp' = spawnResponses[<<gameCode, sentPersonality, regScript,
                                             joinScript, invokeScript>>]
  /\ clock' = clock
  /\ UNCHANGED <<sessionVars, call>>

SpawnRequestStep ==
  \E in \in SpawnInputs : SpawnRequest(in[1], in[2], in[3], in[4], in[5])

\* time passes between two requests
SpawnTick ==
  /\ clock < ClockEnd
  /\ clock' = clock + 1
  /\ recent' = [a \in 0..Window |-> IF a = 0 THEN NoRequests[0] ELSE recent[a - 1]]
  /\ UNCHANGED <<spawnAttempts, lastSpawnTime, burst, resp>>
  /\ UNCHANGED <<sessionVars, call>>

InitSpawn ==
  /\ Parked
  /\ call = NoCall
  /\ SpawnIdle
NextSpawn == SpawnRequestStep \/ SpawnTick
SpecSpawn == InitSpawn /\ [][NextSpawn]_vars

(***************************************************************************)
(* makeSmartVotingChoice on its own.  A submission is given by its author  *)
(* and by the artist lists (mainstream, indie, vintage) whose names its    *)
(* artist includes; the provider's judgment by the player names its text   *)
(* includes; Math.random() by whether it fell below the threshold it is    *)
(* compared with.                                                          *)
(***************************************************************************)
Styles == SUBSET {"mainstream", "indie", "vintage"}
Voters == {Bot, "p1", "p2"}
VoteEntry(p, st) == [player |-> p, artist |-> st]
NoVoteEntry == VoteEntry(NoPlayer, {})
isMainstreamSong(submission) == "mainstream" \in submission.artist
isIndieArtist(artist) == "indie" \in artist
isVintageSong(submission) == "vintage" \in submission.artist

\* the completion request of shouldVoteForOwnSubmission: it throws, or it
\* returns a text
Judgment(failed, names) == [failed |-> failed, names |-> names]
Judgments ==
  {Judgment(TRUE, {})} \cup {Judgment(FALSE, n) : n \in SUBSET {"PLAYER1", "PLAYER2"}}

shouldVoteForSelfByPersonality(personality, own, opp, low) ==
  CASE personality = "analytical" -> ~low
    [] personality = "eclectic" -> ~(~isMainstreamSong(opp) /\ isMainstreamSong(own))
    [] personality = "mainstream" -> ~(isMainstreamSong(opp) /\ ~isMainstreamSong(own))
    [] personality = "indie" -> ~(isIndieArtist(opp.artist) /\ ~isIndieArtist(own.artist))
    [] personality = "vintage" -> ~(isVintageSong(opp) /\ ~isVintageSong(own))
    [] OTHER -> low

\* self: vote for the own submission; requests: completion requests sent
shouldVoteForOwnSubmission(key, personality, own, opp, judgment, low) ==
  IF ~Truthy(key)
  THEN [self |-> shouldVoteForSelfByPersonality(personality, own, opp, low), requests |-> 0]
  ELSE IF judgment.failed
  THEN [self |-> shouldVoteForSelfByPersonality(personality, own, opp, low), requests |-> 1]
  ELSE [self |-> "PLAYER1" \in judgment.names, requests |-> 1]

\* submissions.find(...) || submissions[0]
FindOrFirst(subs, Test(_)) ==
  IF \E i \in Idx(subs) : Test(subs[i])
  THEN subs[CHOOSE i \in Idx(subs) : Test(subs[i]) /\ \A j \in 1..(i - 1) : ~Test(subs[j])]
  ELSE subs[1]
NotMainstream(submission) == ~isMainstreamSong(submission)
IndieSubmission(submission) == isIndieArtist(submission.artist)
chooseVoteByPersonality(personality, subs, low) ==
  CASE personality = "eclectic" -> FindOrFirst(subs, NotMainstream)
    [] personality = "mainstream" -> FindOrFirst(subs, isMainstreamSong)
    [] personality = "indie" -> FindOrFirst(subs, IndieSubmission)
    [] personality = "vintage" -> FindOrFirst(subs, isVintageSong)
    [] OTHER -> IF low THEN subs[1] ELSE subs[Len(subs)]

IsOwn(submission) == submission.player = Bot
IsOpposing(submission) == submission.player # Bot
makeSmartVotingChoice(subs, canSelf, key, personality, judgment, low) ==
  LET ownSubmissions == SelectSeq(subs, IsOwn)
      opponentSubmissions == SelectSeq(subs, IsOpposing)
  IN  IF canSelf /\ Len(ownSubmissions) > 0 /\ Len(opponentSubmissions) > 0
      THEN LET r == shouldVoteForOwnSubmission(key, personality, ownSubmissions[1],
                                               opponentSubmissions[1], judgment, low)
           IN  [choice |-> IF r.self THEN ownSubmissions[1] ELSE opponentSubmissions[1],
                requests |-> r.requests]
      ELSE [choice |-> chooseVoteByPersonality(personality, subs, low), requests |-> 0]

\* the lists handleVoting hands over: one or two non-passed submissions of
\* different players, the bot's own among them only where self-voting is allowed
VoteLists(canSelf) ==
  LET authors == IF canSelf THEN {Bot, "p1"} ELSE {"p1", "p2"}
  IN  {<<VoteEntry(p, st)>> : p \in authors, st \in Styles}
      \cup {<<VoteEntry(pq[1], st), VoteEntry(pq[2], su)>> :
              pq \in {x \in authors \X authors : x[1] # x[2]}, st \in Styles, su \in Styles}

InitVote ==
  /\ Parked
  /\ SpawnIdle
  /\ \E canSelf \in BOOLEAN, key \in ApiKeys, personality \in Personalities :
       \E subs \in VoteLists(canSelf), judgment \in Judgments, low \in BOOLEAN :
         call = [fn |-> "makeSmartVotingChoice", submissions |-> subs, canVoteForSelf |-> canSelf,
                 key |-> key, personality |-> personality, judgment |-> judgment, low |-> low,
                 done |-> FALSE, out |-> [choice |-> NoVoteEntry, requests |-> 0]]

EvalVote ==
  /\ call.fn = "makeSmartVotingChoice"
  /\ ~call.done
  /\ call' = [call EXCEPT !.done = TRUE,
                !.out = makeSmartVotingChoice(call.submissions, call.canVoteForSelf, call.key,
                                              call.personality, call.judgment, call.low)]
  /\ UNCHANGED <<sessionVars, spawnVars>>

SpecVote == InitVote /\ [][EvalVote]_vars

(***************************************************************************)
(* selectWinnerQuestion on its own.  posts lists the bodies of the         *)
(* set-winner-question requests in the order they are sent.                *)
(***************************************************************************)
Question(text, category) == [text |-> text, category |-> category]
NoQuestion == Question("", "")
personalityQuestions ==
  [eclectic |-> <<Question("What song would soundtrack your weirdest dream?", "creative"),
                  Question("What song do you love that nobody else seems to know?", "personal"),
                  Question("What song feels like it was made in a different dimension?", "creative")>>,
   mainstream |-> <<Question("What song gets everyone singing along at parties?", "party"),
                    Question("What's the catchiest song you can't get out of your head?", "catchy"),
                    Question("What song do you hear everywhere but still love?", "popular")>>,
   indie |-> <<Question("What song feels like a secret only you know?", "personal"),
               Question("What artist deserves way more recognition?", "discovery"),
               Question("What song has lyrics that hit different?", "meaningful")>>,
   vintage |-> <<Question("What song takes you back to a different era?", "nostalgia"),
                 Question("What classic song will never get old?", "timeless"),
                 Question("What song reminds you of your parents' generation?", "generational")>>,
   analytical |-> <<Question("What song has the most brilliant lyrics?", "literary"),
                    Question("What song shows off incredible musicianship?", "technical"),
                    Question("What song changed how you think about music?", "transformative")>>]
emergencyQuestion == Question("What song always makes you smile?", "emotion")

\* idx: Math.floor(Math.random() * questions.length), counted from 1
getFallbackQuestion(personality, idx) ==
  LET questions == IF personality \in DOMAIN personalityQuestions
                   THEN personalityQuestions[personality]
                   ELSE personalityQuestions["eclectic"]
  IN  questions[idx]

\* the completion request of generateAIQuestion: it throws ("error"), or its
\* text is not JSON ("notjson"), or it is JSON without a question member
\* ("noquestion"), or JSON with the question given
Completion(kind, question) == [kind |-> kind, question |-> question]
Completions ==
  {Completion(k, NoQuestion) : k \in {"error", "notjson", "noquestion"}}
  \cup {Completion("parsed", q) : q \in {NoQuestion,
                                         Question("What song is your guilty pleasure?", ""),
                                         Question("What song defines a road trip?", "travel")}}

\* produced: a question was returned, not null
generateAIQuestion(key, completion) ==
  IF ~Truthy(key) THEN [produced |-> FALSE, question |-> NoQuestion, requests |-> 0]
  ELSE IF completion.kind = "parsed" /\ completion.question.text # ""
  THEN [produced |-> TRUE, question |-> completion.question, requests |-> 1]
  ELSE [produced |-> FALSE, question |-> NoQuestion, requests |-> 1]

\* the body of the set-winner-question request
WinnerQuestionBody(question) ==
  [questionText |-> question.text,
   questionCategory |-> IF question.category = "" THEN "general" ELSE question.category]

\* (variant that sends the emergency question whatever the first answer)
selectWinnerQuestion_twice(key, personality, completion, idx, r1, r2) ==
  LET ai == generateAIQuestion(key, completion)
      first == IF ai.produced THEN ai.question ELSE getFallbackQuestion(personality, idx)
  IN  [posts |-> <<WinnerQuestionBody(first), WinnerQuestionBody(emergencyQuestion)>>,
       threw |-> r2 # "ok"]
\* r1, r2: the game's answers to the first and to the emergency submission
selectWinnerQuestion(key, personality, completion, idx, r1, r2) ==
  LET ai == generateAIQuestion(key, completion)
      first == IF ai.produced THEN ai.question ELSE getFallbackQuestion(personality, idx)
  IN  IF r1 = "ok"
      THEN [posts |-> <<WinnerQuestionBody(first)>>, threw |-> FALSE]
      ELSE [posts |-> <<WinnerQuestionBody(first), WinnerQuestionBody(emergencyQuestion)>>,
            threw |-> r2 # "ok"]

InitQuestion ==
  /\ Parked
  /\ SpawnIdle
  /\ \E key \in ApiKeys, personality \in Personalities, completion \in Completions :
       \E idx \in 1..3, r1 \in {"ok", "err"}, r2 \in {"ok", "err"} :
         call = [fn |-> "selectWinnerQuestion", key |-> key, personality |-> personality,
                 completion |-> completion, idx |-> idx, r1 |-> r1, r2 |-> r2,
                 done |-> FALSE, out |-> [posts |-> <<>>, threw |-> FALSE]]

EvalQuestion ==
  /\ call.fn = "selectWinnerQuestion"
  /\ ~call.done
  /\ call' = [call EXCEPT !.done = TRUE,
                !.out = selectWinnerQuestion(call.key, call.personality, call.completion,
                                             call.idx, call.r1, call.r2)]
  /\ UNCHANGED <<sessionVars, spawnVars>>

SpecQuestion == InitQuestion /\ [][EvalQuestion]_vars

(***************************************************************************)
(* handleDuplicateAndRetry on its own, request by request.  A suggestion   *)
(* is given by what searchSongs, findBestMatch and isGoodMatch make of it: *)
(* the id of its best match (NoSong when the search finds nothing) and     *)
(* whether that match is good.  claimed are the song ids held by other     *)
(* players when the alternative submits arrive, which is the snapshot's    *)
(* and whatever was claimed since; fault numbers the alternative submit    *)
(* that fails with another error than 409 (0: none does).                  *)
(***************************************************************************)
MaxSuggestions == 2
Candidate(id, good) == [id |-> id, good |-> good]
Candidates == {Candidate(id, good) : id \in Songs \cup {NoSong}, good \in BOOLEAN}
SuggestionLists == UNION {[1..n -> Candidates] : n \in 0..MaxSuggestions}

\* the loop over aiSuggestions from index i on, then passTurn; sent: the
\* song ids sent so far by the loop
RECURSIVE alternativesFrom(_, _, _, _, _, _)
alternativesFrom(aiSuggestions, i, avoid, claimed, fault, sent) ==
  IF i > Len(aiSuggestions) THEN [sends |-> Append(sent, "pass"), accepted |-> NoSong]
  ELSE LET bestMatch == aiSuggestions[i]
       IN  IF bestMatch.id = NoSong
           THEN alternativesFrom(aiSuggestions, i + 1, avoid, claimed, fault, sent)
           ELSE IF bestMatch.id \in avoid
           THEN alternativesFrom(aiSuggestions, i + 1, avoid, claimed, fault, sent)
           ELSE IF ~bestMatch.good
           THEN alternativesFrom(aiSuggestions, i + 1, avoid, claimed, fault, sent)
           ELSE IF fault = Len(sent) + 1
           THEN [sends |-> sent \o <<bestMatch.id, "pass">>, accepted |-> NoSong]
           ELSE IF bestMatch.id \in claimed
           THEN alternativesFrom(aiSuggestions, i + 1, avoid, claimed, fault,
                                 Append(sent, bestMatch.id))
           ELSE [sends |-> Append(sent, bestMatch.id), accepted |-> bestMatch.id]

\* f: the snapshot request succeeded; hasQuestion: the snapshot has a
\* current question; snapshotIds: the song ids of its non-passed submissions
duplicateRetryRequests(f, hasQuestion, snapshotIds, aiSuggestions, claimed, fault) ==
  IF ~f THEN [sends |-> <<"pass">>, accepted |-> NoSong]
  ELSE IF ~hasQuestion THEN [sends |-> <<"pass">>, accepted |-> NoSong]
  ELSE IF Len(aiSuggestions) = 0 THEN [sends |-> <<"pass">>, accepted |-> NoSong]
  ELSE alternativesFrom(aiSuggestions, 1, snapshotIds, claimed, fault, <<>>)

\* song: the id whose submit was answered 409 DUPLICATE_SONG, so another
\* player holds it in the snapshot fetched afterwards
InitDuplicate ==
  /\ Parked
  /\ SpawnIdle
  /\ \E song \in Songs, f \in BOOLEAN, hasQuestion \in BOOLEAN, later \in SUBSET Songs :
       \E snapshotIds \in {ids \in SUBSET Songs : song \in ids} :
         \E aiSuggestions \in SuggestionLists, fault \in 0..MaxSuggestions :
           call = [fn |-> "handleDuplicateAndRetry", song |-> song, f |-> f,
                   hasQuestion |-> hasQuestion, snapshotIds |-> snapshotIds,
                   claimed |-> snapshotIds \cup later, aiSuggestions |-> aiSuggestions,
                   fault |-> fault, done |-> FALSE,
                   out |-> [sends |-> <<>>, accepted |-> NoSong]]

EvalDuplicate ==
  /\ call.fn = "handleDuplicateAndRetry"
  /\ ~call.done
  /\ call' = [call EXCEPT !.done = TRUE,
                !.out = duplicateRetryRequests(call.f, call.hasQuestion, call.snapshotIds,
                                               call.aiSuggestions, call.claimed, call.fault)]
  /\ UNCHANGED <<sessionVars, spawnVars>>

SpecDuplicate == InitDuplicate /\ [][EvalDuplicate]_vars

(***************************************************************************)
(* Properties.                                                             *)
(***************************************************************************)
Live == pc \in {"running", "handedoff"}
Stopped == pc \in {"ended", "removed", "stalled", "aged", "killed", "nosnapshot"}
OwnNonPassed == \E i \in Idx(submissions) : submissions[i].player = Bot /\ ~submissions[i].hasPassed

\* the selection attempts of the running invocation that were started in this
\* selecting phase and have not sent their request yet
OutstandingAttempts ==
  LET mine == {t \in Pending : t.gen = "cur" /\ t.lag = 0 /\ t.kind \in {"submit", "pass"}}
  IN  BagCardinality([t \in mine |-> CopiesIn(t, timers)])

\* the longest iteration of the poll loop
PollCycle == LongFetch

\* C1: a poll of the selecting phase whose snapshot already holds an entry of
\* the bot (passed or not) runs no decision pipeline and schedules no submit
\* and no pass.
C1_SelectionIdempotent ==
  (ev.op = "poll" /\ ev.handler = "selecting" /\ ev.hadOwn) => ev.scheduled = "none"

C1_Witness ==
  /\ ev.op = "poll" /\ ev.handler = "selecting" /\ ev.hadOwn
  /\ ev.scheduled = "none"
  /\ pc = "running"

\* C2: a game action that a callback left pending at a handoff sends is not
\* also sent, in the same phase of the same round, by the invocation that
\* continues the session (in either order).
C2_OncePerRoundAcrossHandoff ==
  ~(ev.op = "fire" /\ ev.sent \in {"submit", "pass", "vote", "question"} /\ ev.other)

\* C3: while the game is in the selecting phase, the running invocation has at
\* most one selection attempt outstanding.
C3_OneAttemptOutstanding ==
  phase = "selecting" => OutstandingAttempts <= 1

\* C4: in one voting phase an invocation sends at most one vote request.
C4_OneVoteRequest ==
  ~(ev.op = "fire" /\ ev.sent = "vote" /\ phase = "voting" /\ ev.repeat)

\* C5: a submit request is never sent for a song that is, at the moment of
\* sending, another player's non-passed submission.
C5_NoDuplicateClaim ==
  ~(ev.op = "fire" /\ ev.sent = "submit" /\ ev.claimed)

\* C6: with three or more players counted, the votable set captured by a vote
\* callback holds no submission of the bot, and the vote that is sent is not
\* for the bot's own submission.
C6_SelfVoteGating ==
  /\ \A t \in Pending :
       (t.kind = "vote" /\ t.total >= 3) => \A i \in Idx(t.votable) : t.votable[i] # Bot
  /\ (ev.op = "fire" /\ ev.sent = "vote" /\ ev.total >= 3) => ev.target # Bot

C6_Witness ==
  /\ ev.op = "fire" /\ ev.sent = "vote" /\ ev.total >= 3
  /\ ev.target # Bot
  /\ OwnNonPassed

\* C7: a poll that finds the fetched phase unchanged for more than the stall
\* ceiling dispatches no handler and ends the session without a continuation.
C7_StallTermination ==
  (ev.op = "poll" /\ obsDwell > StallCeiling) => (ev.handler = "none" /\ Stopped)

\* C8: a poll of a session older than the age ceiling dispatches no handler
\* and ends the session, whatever the phase.
C8_AgeTermination ==
  (ev.op = "poll" /\ age > AgeCeiling) => (ev.handler = "none" /\ Stopped)

\* C9: in a live session the time for which the fetched phase has stayed the
\* same is at most the stall ceiling plus one poll cycle, handoffs included.
C9_DwellBounded ==
  Live => obsDwell <= StallCeiling + PollCycle

\* C10: under fair scheduling a session eventually stops.
C10_EventuallyStops == <>Stopped

\* C11: a poll that trips no exit condition and measures an elapsed time above
\* the run margin issues the continuation request, with a payload equal to the
\* invocation's own input, and the invocation polls no more after it.
C11_SingleContinuation ==
  (ev.op = "poll" /\ ev.handler # "none" /\ elapsed > RunMargin) =>
    (ev.invoke # "none" /\ ev.payload = event /\ pc # "running")

\* C12: an invocation stops only because the bot was removed, the phase
\* stalled, the session aged, the game ended or it handed off (or the host
\* ended it at the function timeout); a failed fetch leaves it running.
C12_ErrorsNeverStop ==
  pc \in {"running", "handedoff", "removed", "stalled", "aged", "ended", "killed"}

\* C13: in the winner determination the sorted list holds exactly the
\* non-passed submissions, one with more votes stands before one with fewer,
\* and of two with equal votes and different timestamps the later one is not
\* the winner.
C13_WinnerOrder ==
  (call.fn = "isBotTheWinner" /\ call.done) =>
    LET actual == SelectSeq(call.subs, NotPassed)
        sorted == call.out.sorted
    IN  /\ Len(sorted) = Len(actual)
        /\ {sorted[i] : i \in Idx(sorted)} = {actual[i] : i \in Idx(actual)}
        /\ \A i, j \in Idx(sorted) :
             votesLength(sorted[i]) > votesLength(sorted[j]) => i < j
        /\ \A i, j \in Idx(actual) :
             (/\ votesLength(actual[i]) = votesLength(actual[j])
              /\ actual[i].submittedAt < actual[j].submittedAt) => sorted[1] # actual[j]
        /\ call.out.isWinner = (Len(sorted) > 0 /\ sorted[1].player = Bot)

C13_Witness ==
  /\ call.fn = "isBotTheWinner" /\ call.done
  /\ Len(call.subs) = 2
  /\ ~call.subs[1].hasPassed /\ ~call.subs[2].hasPassed
  /\ votesLength(call.subs[1]) = votesLength(call.subs[2])
  /\ call.subs[2].submittedAt < call.subs[1].submittedAt
  /\ call.subs[2].player = Bot
  /\ call.out.isWinner

\* C14: in the question-selection phase a poll starts a question proposal only
\* if its snapshot shows the bot as the author of the winning submission and no
\* chosen next question; a poll of a non-winner starts none; a proposal is sent
\* in that phase only by the winner; and the bot is no winner when every
\* submission is a pass.
AllPassed == \A i \in Idx(submissions) : submissions[i].hasPassed
C14_OnlyWinnerProposes ==
  /\ (ev.op = "poll" /\ ev.handler = "question-selection" /\ ev.scheduled # "none") =>
       (isBotTheWinner(submissions) /\ ~nextQuestionSet)
  /\ (ev.op = "poll" /\ ev.handler = "question-selection" /\ ~isBotTheWinner(submissions)) =>
       ev.scheduled = "none"
  /\ (ev.op = "fire" /\ ev.sent = "question" /\ phase = "question-selection") =>
       isBotTheWinner(submissions)
  /\ AllPassed => ~isBotTheWinner(submissions)

C14_Witness ==
  /\ ev.op = "fire" /\ ev.sent = "question" /\ phase = "question-selection"
  /\ isBotTheWinner(submissions)
  /\ nextQuestionSet
  /\ Len(submissions) = 2

\* the question proposals of the running invocation that are scheduled and
\* have not run yet
QuestionAttempts ==
  LET mine == {t \in Pending : t.gen = "cur" /\ t.kind = "question"}
  IN  BagCardinality([t \in mine |-> CopiesIn(t, timers)])

\* C15: the running invocation has at most one question proposal outstanding,
\* and while one is outstanding its single-flight flag is set, so that a poll
\* starts no second one.
C15_OneQuestionAttempt ==
  /\ QuestionAttempts <= 1
  /\ QuestionAttempts = 1 => isSelectingQuestion

C15_Witness ==
  /\ ev.op = "poll" /\ ev.handler = "question-selection" /\ ev.scheduled = "none"
  /\ isBotTheWinner(submissions) /\ ~nextQuestionSet
  /\ QuestionAttempts = 1
  /\ pc = "running"

\* C16: without an API key a request for song suggestions returns the
\* fallback list of its question and personality, never null, and sends no
\* request to the provider.
C16_FallbackWithoutCredentials ==
  (call.fn = "getAISongSuggestions" /\ call.done /\ ~Truthy(call.key)) =>
    /\ ~call.out.isNull
    /\ call.out.list = getFallbackSuggestions(call.text, call.personality)
    /\ call.out.requests = 0

\* the matcher's relations as the scoring rule states them: a name matches
\* another exactly when they are equal without regard to case, partially when
\* one lies within the other
Within(x, y) == \E u, v \in 0..Len(y) : u + Len(x) + v = Len(y) /\ SubSeq(y, u + 1, u + Len(x)) = x
SameName(x, y) == toLowerCase(x) = toLowerCase(y)
PartOf(x, y) == Within(toLowerCase(x), toLowerCase(y)) \/ Within(toLowerCase(y), toLowerCase(x))
HasMarker(name) ==
  \E m \in {instrumental, karaoke, cover, remix} : Within(m, toLowerCase(name))
RuleScore(result, suggestion) ==
  (IF SameName(result.artist, suggestion.artist) THEN 100
   ELSE IF PartOf(result.artist, suggestion.artist) THEN 50 ELSE 0)
  + (IF SameName(result.name, suggestion.song) THEN 80
     ELSE IF PartOf(result.name, suggestion.song) THEN 40 ELSE 0)
  - (IF HasMarker(result.name) THEN 30 ELSE 0)

\* C17: findBestMatch returns a result whose score is the highest of the
\* list, and the first of the list among those with the highest score.
C17_BestMatchIsMaximum ==
  (call.fn = "findBestMatch" /\ call.done) =>
    LET l == call.searchResults
        best == call.out.index
    IN  /\ best \in Idx(l)
        /\ \A i \in Idx(l) : RuleScore(l[i], call.suggestion) <= RuleScore(l[best], call.suggestion)
        /\ \A i \in Idx(l) :
             RuleScore(l[i], call.suggestion) = RuleScore(l[best], call.suggestion) => best <= i

\* a name without a leading "the" and a trailing "band" (with the blanks that
\* set them off)
AfterThe(x) ==
  LET cuts == {k \in 4..Len(x) : SubSeq(x, 1, 3) = the /\ \A j \in 4..k : x[j] = " "}
  IN  IF cuts = {} THEN x
      ELSE SubSeq(x, (CHOOSE k \in cuts : \A j \in cuts : j <= k) + 1, Len(x))
BeforeBand(x) ==
  LET n == Len(x)
      cuts == {k \in 1..(n - 4) : SubSeq(x, n - 3, n) = band /\ \A j \in k..(n - 4) : x[j] = " "}
  IN  IF cuts = {} THEN x
      ELSE SubSeq(x, 1, (CHOOSE k \in cuts : \A j \in cuts : k <= j) - 1)
Core(x) == BeforeBand(AfterThe(x))
\* the artist names match exactly or partially, as given or by their cores
ArtistsMatch(x, y) ==
  LET a == trim(toLowerCase(x))
      b == trim(toLowerCase(y))
  IN  \/ Within(a, b) \/ Within(b, a)
      \/ Within(Core(a), Core(b)) \/ Within(Core(b), Core(a))

\* C18: isGoodMatch is true exactly when the artist of the match and the
\* artist of the suggestion match exactly or partially; the titles and the
\* score of the match have no part in it.
C18_AcceptableByArtistOnly ==
  (call.fn = "isGoodMatch" /\ call.done) =>
    (call.out.isGood <=> ArtistsMatch(call.searchResults[1].artist, call.suggestion.artist))

C18_Witness ==
  /\ call.fn = "isGoodMatch" /\ call.done
  /\ call.out.isGood
  /\ call.searchResults[1].artist = Str_TheBeatles
  /\ call.suggestion.artist = Str_beatlesBand
  /\ call.searchResults[1].name = Str_DreamsCover
  /\ call.suggestion.song = Str_Jude

\* the failures the wrapper is to retry: a rate-limit answer, a 5xx answer, a
\* connection reset, a timeout, a failed name lookup, a refused connection
Transient(e) ==
  \/ e.status = 429
  \/ e.status \in 500..599
  \/ e.code = "ECONNRESET" \/ e.code = "ETIMEDOUT" \/ e.code = "ENOTFOUND" \/ e.code = "ECONNREFUSED"
RetryDone == call.fn = "retryWithBackoff" /\ call.done

\* C19: a failed invocation that leaves attempts is followed by another
\* invocation exactly if its failure is transient; after any other failure the
\* operation is not invoked again (once in all when it was the first) and that
\* error is raised.
C19_RetryIffTransient ==
  RetryDone =>
    \A k \in 1..call.out.calls :
      call.operation[k] # Success =>
        /\ k < call.maxRetries => (call.out.calls > k <=> Transient(call.operation[k]))
        /\ ~Transient(call.operation[k]) =>
             /\ call.out.calls = k
             /\ call.out.threw /\ call.out.error = call.operation[k] /\ call.out.errorOf = k

C19_Witness ==
  /\ RetryDone
  /\ call.maxRetries = 2
  /\ call.operation[1] = Failure(503, "")
  /\ call.operation[2] = Failure(404, "")
  /\ call.out.calls = 2 /\ call.out.threw /\ call.out.error = Failure(404, "")

AllTransient == \A k \in 1..(call.maxRetries + 1) : call.operation[k] # Success /\ Transient(call.operation[k])
SleepsOnlyBetween ==
  /\ Len(call.out.sleeps) = call.out.calls - 1
  /\ \A i \in 1..Len(call.out.sleeps) : call.out.sleeps[i].after = i
RaisesLast ==
  call.out.threw /\ call.out.errorOf = call.out.calls /\ call.out.error = call.operation[call.out.calls]

\* C20 (as stated): when every invocation fails with a transient error, the
\* operation is invoked exactly as many times as the count given to the
\* wrapper, sleeps fall only between invocations, and the error of the last
\* invocation is raised.
C20_ExactlyMaxAttempts ==
  (RetryDone /\ AllTransient) =>
    (call.out.calls = call.maxRetries /\ SleepsOnlyBetween /\ RaisesLast)

\* C20 (amended): the operation is invoked once more than the count given to
\* the wrapper (the first attempt and that many retries).
C20_MaxRetriesPlusOne ==
  (RetryDone /\ AllTransient) =>
    (call.out.calls = call.maxRetries + 1 /\ SleepsOnlyBetween /\ RaisesLast)

C20_Witness ==
  /\ RetryDone /\ AllTransient
  /\ call.maxRetries = 2
  /\ call.out.calls = 3
  /\ Len(call.out.sleeps) = 2
  /\ call.operation[2] # call.operation[3]
  /\ call.out.error = call.operation[3]

(***************************************************************************)
(* The spawn-bot process.                                                  *)
(***************************************************************************)
\* the requests of the last 60 s, this tick's included: all, and those let through
SentInWindow == recent[0].sent + SumSent(recent, Window)
PassedInWindow == recent[0].passed + SumPassed(recent, Window)
RateLimited == resp.statusCode = 429 /\ resp.error = "Rate limit exceeded"

\* C21: of the spawn requests one process handles, no 60-second interval
\* holds more than MAX_SPAWNS_PER_MINUTE (10) that pass the rate limit.
C21_AtMostTenPerWindow == PassedInWindow <= MAX_SPAWNS_PER_MINUTE

\* ten requests have passed within 60 s, spread over more than one tick, and
\* the eleventh has been turned away
C21_Witness ==
  /\ PassedInWindow = MAX_SPAWNS_PER_MINUTE
  /\ recent[0].passed > 0 /\ recent[0].passed < MAX_SPAWNS_PER_MINUTE
  /\ recent[0].sent > recent[0].passed
  /\ RateLimited

\* C22: a caller that never sends more than 10 spawn requests within any
\* 60-second interval is never answered 429 by the rate limiter.
C22_CompliantNeverRejected == RateLimited => burst

\* C23: when the join step of a spawn request fails, the response has status
\* 500 with error "Game join failed" and no bot worker is invoked, although
\* the bot user has already been registered.
C23_JoinFailure ==
  resp.failed = "join" =>
    /\ resp.statusCode = 500
    /\ resp.error = "Game join failed"
    /\ resp.workers = 0
    /\ "worker" \notin {resp.steps[i] : i \in DOMAIN resp.steps}
    /\ resp.registered

C23_Witness ==
  /\ resp.failed = "join"
  /\ resp.steps = <<"rateLimit", "register", "join">>
  /\ resp.registered /\ ~resp.joined
  /\ resp.botId = botUser.id

SpawnOrder == <<"rateLimit", "register", "join", "worker">>
C25_SentOnlyWhileCalledFor ==
  ev.op = "fire" =>
    /\ ev.sent = "ready" => phase = "waiting"
    /\ ev.sent \in {"submit", "pass"} => phase = "selecting"
    /\ ev.sent = "vote" => phase = "voting"
    /\ ev.sent = "question" => phase = "question-selection"

\* the selection attempts whose callback has not run yet, of any invocation
SelectionAttempts ==
  LET open == {t \in Pending : t.kind \in {"submit", "pass"}}
  IN  BagCardinality([t \in open |-> CopiesIn(t, timers)])

\* C26: every selection attempt the selecting-phase handler starts ends with
\* the bot having sent a song submission or a pass request.
C26_AttemptEndsWithSend ==
  [][SelectionAttempts' < SelectionAttempts =>
       (ev'.op = "fire" /\ ev'.sent \in {"submit", "pass"})]_vars

\* C27: a poll that observes the phase ended dispatches no phase handler,
\* schedules no game action and issues no continuation; the invocation is
\* stopped by it, and from then on it polls no more, hands off no more and
\* sends no game action.
C27_NothingAfterEnded ==
  [][/\ (ev'.op = "poll" /\ currentState' = "ended") =>
          /\ ev'.handler = "none" /\ ev'.scheduled = "none"
          /\ ev'.invoke = "none" /\ ~queued'
          /\ pc' \in {"ended", "removed", "stalled"}
     /\ pc = "ended" =>
          (pc' = "ended" /\ ev'.op \notin {"poll", "fire"} /\ ~queued')]_vars

\* a poll has fetched a snapshot, and the bot is not in its roster
PollWithoutBot == ev.op = "poll" /\ currentState = phase /\ ~botIn

\* C28: a poll whose snapshot roster does not contain the bot ends the
\* session: it dispatches no handler, schedules no game action for that
\* snapshot and issues no continuation.
C28_RemovedBotStops ==
  PollWithoutBot =>
    /\ ev.handler = "none" /\ ev.scheduled = "none"
    /\ ev.invoke = "none" /\ ~queued
    /\ pc \in {"removed", "stalled"}

\* the bot was removed in the selecting phase before it had submitted, and
\* the poll that found it gone was past the handoff margin
C28_Witness ==
  /\ PollWithoutBot
  /\ pc = "removed"
  /\ phase = "selecting" /\ ~hasSubmitted(submissions)
  /\ elapsed > RunMargin

\* C29: a loop iteration that measures an elapsed time above the run margin
\* and trips no exit condition issues the continuation within that
\* iteration, also when its snapshot request failed; so the host's limit
\* never ends an invocation that is still polling.
C29_HandoffBeforeHostLimit ==
  [][/\ (pc = "running" /\ elapsed' # elapsed /\ elapsed' > RunMargin) =>
          (ev'.invoke # "none" \/ Stopped')
     /\ pc' # "killed"]_vars

\* C30: at most one invocation of a bot session polls the game: an
\* invocation that has issued a continuation request polls no more, and a
\* spawn request answered with success has started exactly one worker.
C30_OnePollerPerSession ==
  /\ ev.invoke # "none" => pc # "running"
  /\ resp.workers <= 1
  /\ resp.success => resp.workers = 1

(***************************************************************************)
(* Voting.                                                                 *)
(***************************************************************************)
NonPassedAuthors == {submissions[i].player : i \in {j \in Idx(submissions) : ~submissions[j].hasPassed}}
Members(seq) == {seq[i] : i \in Idx(seq)}

\* C31: the vote the bot sends is for a member of the votable set that the
\* voting handler computed from its snapshot, a set of non-passed
\* submissions; when that set is empty no vote is scheduled or sent.
C31_VoteWithinVotable ==
  [][/\ (ev'.op = "fire" /\ ev'.sent = "vote") =>
          \E t \in Pending : /\ t.kind = "vote"
                             /\ timers' = Cancel(t)
                             /\ ev'.target \in Members(t.votable)
     /\ \A t \in Pending' :
          t.kind = "vote" =>
            /\ Len(t.votable) > 0
            /\ t.lag = 0 => Members(t.votable) \subseteq NonPassedAuthors']_vars

\* a vote was sent in a game of three, where a passed entry and the bot's own
\* were left out of the votable set
C31_Witness ==
  /\ ev.op = "fire" /\ ev.sent = "vote" /\ ev.total >= 3
  /\ ev.target \in NonPassedAuthors /\ ev.target # Bot
  /\ phase = "voting"
  /\ OwnNonPassed

VoteDone == call.fn = "makeSmartVotingChoice" /\ call.done
\* C32: with three or more players and provider credentials, the vote among
\* the opposing submissions is chosen by first asking the provider to judge
\* them.
C32_ProviderJudgesFirst ==
  (VoteDone /\ ~call.canVoteForSelf /\ Len(call.submissions) >= 2 /\ Truthy(call.key)) =>
    call.out.requests > 0

\* C33: where the bot may vote for itself and both an own and an opposing
\* submission stand, a judgment that is unavailable, or whose text names
\* neither player, leaves the vote to the personality heuristic.
C33_HeuristicWhenUnparseable ==
  (/\ VoteDone /\ call.canVoteForSelf /\ Len(call.submissions) = 2
   /\ (~Truthy(call.key) \/ call.judgment.failed \/ call.judgment.names = {})) =>
    LET own == SelectSeq(call.submissions, IsOwn)[1]
        opp == SelectSeq(call.submissions, IsOpposing)[1]
    IN  call.out.choice =
          IF shouldVoteForSelfByPersonality(call.personality, own, opp, call.low)
          THEN own ELSE opp

QuestionDone == call.fn = "selectWinnerQuestion" /\ call.done
BankOf(personality) ==
  LET key == IF personality \in DOMAIN personalityQuestions THEN personality ELSE "eclectic"
  IN  {WinnerQuestionBody(personalityQuestions[key][i]) : i \in 1..3}
ProviderProduced ==
  /\ Truthy(call.key)
  /\ call.completion.kind = "parsed"
  /\ call.completion.question.text # ""
\* C34: a question-selection attempt first submits the provider's question
\* when one was produced and otherwise a question of the bot's personality
\* (of the eclectic ones where the personality has none); the emergency
\* question is submitted only second, after the first submission failed; when
\* the first submission succeeds the attempt sends exactly one request.
C34_QuestionSources ==
  QuestionDone =>
    /\ Len(call.out.posts) >= 1
    /\ IF ProviderProduced
       THEN call.out.posts[1] = WinnerQuestionBody(call.completion.question)
       ELSE call.out.posts[1] \in BankOf(call.personality)
    /\ IF call.r1 = "ok"
       THEN Len(call.out.posts) = 1
       ELSE /\ Len(call.out.posts) = 2
            /\ call.out.posts[2] = WinnerQuestionBody(emergencyQuestion)
C34_Witness ==
  /\ QuestionDone
  /\ ~ProviderProduced /\ call.personality = "vintage"
  /\ call.r1 = "err" /\ Len(call.out.posts) = 2

OpenQuestionAttempts ==
  LET open == {t \in Pending : t.kind = "question"}
  IN  BagCardinality([t \in open |-> CopiesIn(t, timers)])
\* C35: a question-selection attempt ends only by its callback having run,
\* with the proposal sent or failed, and that releases the single-flight
\* flag; the flag is held only while an attempt of the running invocation is
\* under way.
C35_AttemptCompletes ==
  [][/\ OpenQuestionAttempts' < OpenQuestionAttempts =>
          (ev'.op = "fire" /\ ev'.sent = "question")
     /\ \A t \in Pending :
          (t.kind = "question" /\ t.gen = "cur" /\ ev'.op = "fire" /\ timers' = Cancel(t)) =>
            ~isSelectingQuestion'
     /\ (pc' = "running" /\ isSelectingQuestion') =>
          \E t \in Pending' : t.kind = "question" /\ t.gen = "cur"]_vars

DuplicateDone == call.fn = "handleDuplicateAndRetry" /\ call.done
\* C36: after a submit was rejected as a duplicate claim, the alternative
\* search sends no song id the game has rejected in this attempt (the first
\* one, or an alternative sent earlier in the search), sends at most one
\* submit per new candidate, and ends with an accepted submission or a pass.
C36_BoundedAlternativeSearch ==
  DuplicateDone =>
    LET reqs == call.out.sends
        n == Len(reqs)
    IN  /\ n >= 1
        /\ \A j \in 1..n :
             reqs[j] # "pass" =>
               /\ reqs[j] # call.song
               /\ \A i \in 1..(j - 1) : reqs[i] # reqs[j]
        /\ Cardinality({j \in 1..n : reqs[j] # "pass"}) <= Len(call.aiSuggestions)
        /\ \/ reqs[n] = "pass" /\ call.out.accepted = NoSong
           \/ reqs[n] = call.out.accepted /\ reqs[n] \notin call.claimed

\* C37: an iteration whose snapshot request fails dispatches no phase
\* handler: it schedules nothing, starts no question attempt, issues no
\* continuation and leaves the snapshot's phase and the game as they were.
C37_FailedFetchDispatchesNothing ==
  [][ev'.op = "fetchfail" =>
       /\ ev'.handler = "none" /\ ev'.scheduled = "none" /\ ev'.invoke = "none"
       /\ timers' = timers
       /\ isSelectingQuestion' = isSelectingQuestion
       /\ currentState' = currentState
       /\ pc' = "running" /\ queued' = queued
       /\ UNCHANGED gameVars]_vars
\* a failed iteration while the snapshot kept from the poll before would
\* have the selecting handler start an attempt
C37_Witness ==
  /\ ev.op = "fetchfail"
  /\ currentState = "selecting" /\ phase = "selecting"
  /\ botIn /\ ~BotHasEntry
  /\ timers = NoTimers

\* C38: every game action that is sent comes from a callback of the running
\* invocation; a callback scheduled by an invocation that has since stopped
\* or handed off sends nothing.
C38_NoSendAfterStop ==
  ev.op = "fire" => ev.scheduled = "cur"

\* C39: a spawn request rejected by the rate limiter leaves the counter of
\* admitted requests and the time stamp as they were, and does nothing else:
\* no registration, no join, no worker invocation.
C39_RejectionChangesNothing ==
  [][(clock' = clock /\ resp'.error = "Rate limit exceeded") =>
       /\ spawnAttempts' = spawnAttempts
       /\ lastSpawnTime' = lastSpawnTime
       /\ resp'.statusCode = 429
       /\ resp'.steps = <<"rateLimit">>
       /\ ~resp'.registered /\ ~resp'.joined /\ resp'.workers = 0]_vars
\* a request rejected later than the last admitted one
C39_Witness ==
  /\ resp.error = "Rate limit exceeded"
  /\ recent[0].sent > recent[0].passed
  /\ spawnAttempts = MAX_SPAWNS_PER_MINUTE
  /\ clock > lastSpawnTime

====
